---- MODULE Spec2Model ----
(***************************************************************************)
(* The on-disk storage engine of fslab (fs.hpp / fs.cpp): superblock,      *)
(* bitmaps with first-zero hints, the allocator, the three-tier extent     *)
(* engine (DataProxy), directories-as-files and the namespace operations.  *)
(*                                                                         *)
(* Units.  The device is modelled in cells of one uint32 each: a pointer   *)
(* slot is one cell, so BLOCK_SIZE (in cells) = POINTER_PER_BLOCK.  A      *)
(* directory item is scaled to one cell (ItemPack).  File offsets and      *)
(* sizes are counted in cells.  The geometry is scaled down: the values    *)
(* below are bounds of the model, not the lab's 4096-byte blocks.          *)
(* The time stamps of an inode (atime, mtime, ctime) are not modelled.     *)
(* A failed assert() of the code calls exit(-1): the model sets crashed    *)
(* and no operation runs after it.                                         *)
(***************************************************************************)
EXTENDS Integers, Sequences, FiniteSets, TLC

\* ------------------------------------------------------------------ bounds
\* Cells (pointer slots) per block.
POINTER_PER_BLOCK == 2
\* Blocks of the largest device (BLOCK_NUM of disk.h is a build-time choice:
\* block_num below is the device a behaviour runs on).
MAX_BLOCK_NUM == 19
\* Inode records per inode-table block.
INODE_IN_BLOCK == 4
\* Bits of one bitmap word (uint64_t in the code).
WORD_BITS == 4
\* Words of one bitmap block.
WORDS_PER_BLOCK == 4
\* Short file names 1..NumNames; name 0 is the empty string.
NumNames == 2
\* The two devices of the behaviours that mix files and directories.
SMALL_BLOCK_NUM == 6
MID_BLOCK_NUM == 9
\* Operations in one such behaviour.
MaxSteps == 5
\* Operations in one behaviour over the whole namespace interface.
MaxTreeSteps == 4
\* Characters in a path string given to split_path.
MaxStrLen == 4

\* -------------------------------------------------------- program constants
ENOENT == 2
EACCES == 13
ENOSPC == 28
\* The longest leaf name make_node and fs_rename accept.
MAX_NAME_LEN == 24

BLOCK_SIZE == POINTER_PER_BLOCK

Max(a, b) == IF a >= b THEN a ELSE b
Min(a, b) == IF a <= b THEN a ELSE b
DIVIDE_CEIL(x, y) == (x + y - 1) \div y

\* The values of the uint32_t INode::filesize, in cells: 2^32 bytes are
\* POINTER_PER_BLOCK * POINTER_PER_BLOCK blocks of 4096 bytes.
UINT32_RANGE == POINTER_PER_BLOCK * POINTER_PER_BLOCK * BLOCK_SIZE

\* BitMap::siz: bits of one bitmap block.
siz == WORDS_PER_BLOCK * WORD_BITS

\* ------------------------------------------------ HeaderBlock::HeaderBlock()
\* The superblock of a device of BLOCK_NUM blocks.
inode_bitmap_offset == 1

HeaderBlock(BLOCK_NUM) ==
    LET inode_blocks == (BLOCK_NUM - 1) \div INODE_IN_BLOCK
        inode_num_tot == inode_blocks * INODE_IN_BLOCK
        inode_bitmap_blocks == DIVIDE_CEIL(inode_num_tot, siz)
        data_block_bitmap_offset == inode_bitmap_offset + inode_bitmap_blocks
        avail_block_num == (BLOCK_NUM - 1) - (inode_blocks + inode_bitmap_blocks)
        data_block_bitmap_blocks == DIVIDE_CEIL(avail_block_num, siz)
        data_block_num_tot == avail_block_num - data_block_bitmap_blocks
        inode_block_offset == data_block_bitmap_offset + data_block_bitmap_blocks
    IN  [inode_num_tot |-> inode_num_tot, inode_num_free |-> inode_num_tot,
         inode_bitmap_offset |-> inode_bitmap_offset,
         inode_block_offset |-> inode_block_offset,
         data_block_num_tot |-> data_block_num_tot,
         data_block_num_free |-> data_block_num_tot,
         data_block_bitmap_offset |-> data_block_bitmap_offset,
         data_block_offset |-> inode_block_offset + inode_blocks]

\* The bit positions of the two bitmaps (BitMap(start, end): (end - start)
\* blocks of siz bits), the inode numbers and the blocks of the data region.
InodeBits(h) == 0 .. ((h.data_block_bitmap_offset - h.inode_bitmap_offset) * siz - 1)
DataBits(h) == 0 .. ((h.inode_block_offset - h.data_block_bitmap_offset) * siz - 1)
INodes(h) == 0 .. (h.inode_num_tot - 1)
DataBlocks(h) == h.data_block_offset .. (h.data_block_offset + h.data_block_num_tot - 1)

FILE == 0
DIRECTORY == 1

ZeroBlock == [i \in 0 .. (BLOCK_SIZE - 1) |-> 0]
ZeroINode ==
    [type |-> FILE, filesize |-> 0, direct_pointer |-> 0,
     indirect_pointer |-> 0, iindirect_pointer |-> 0]

\* ------------------------------------------------------------------ state
VARIABLES
    steps,                  \* operations run so far, where a behaviour counts them
    block_num,              \* BLOCK_NUM of the device
    header,                 \* block 0: the free counts (HeaderBlock)
    inode_bitmap,           \* bit position -> BOOLEAN
    data_bitmap,            \* bit position -> BOOLEAN
    inode_bitmap_min_pos,   \* Disk::inode_bitmap_min_pos (static hint)
    data_bitmap_min_pos,    \* Disk::data_bitmap_min_pos (static hint)
    inodes,                 \* the inode table: inode number -> INode
    blocks,                 \* the data region: block number -> cells
    crashed,                \* an assert() failed: the process has exited
    last                    \* the operation that ran last, and its result

vars == <<steps, block_num, header, inode_bitmap, data_bitmap, inode_bitmap_min_pos,
          data_bitmap_min_pos, inodes, blocks, crashed, last>>

\* The device and the allocator hints as one value: the operations below are
\* functions from such a value to the next one.
Disk ==
    [block_num |-> block_num, header |-> header,
     inode_bitmap |-> inode_bitmap, data_bitmap |-> data_bitmap,
     inode_bitmap_min_pos |-> inode_bitmap_min_pos,
     data_bitmap_min_pos |-> data_bitmap_min_pos,
     inodes |-> inodes, blocks |-> blocks, crashed |-> crashed]

Crash(d) == [d EXCEPT !.crashed = TRUE]

\* ---------------------------------------------------------------- bitmaps
\* BitmapBlock::get_first_zero(pos) on bitmap block blockno: the words from
\* the one that holds pos on; in the first word with a zero bit, the lowest
\* zero bit (__builtin_ffsll(~now) - 1).  -1 when every word is full.
WordFull(bm, blockno, word) ==
    \A o \in 0 .. (WORD_BITS - 1) : bm[blockno * siz + word * WORD_BITS + o]

BitmapBlock_get_first_zero(bm, blockno, pos) ==
    LET words == {w \in (pos \div WORD_BITS) .. (WORDS_PER_BLOCK - 1) :
                    ~WordFull(bm, blockno, w)}
    IN  IF words = {} THEN -1
        ELSE LET block == CHOOSE w \in words : \A v \in words : w <= v
                 offset == CHOOSE o \in 0 .. (WORD_BITS - 1) :
                             /\ ~bm[blockno * siz + block * WORD_BITS + o]
                             /\ \A p \in 0 .. (o - 1) :
                                    bm[blockno * siz + block * WORD_BITS + p]
             IN  block * WORD_BITS + offset

\* The hint itself, without a search.
BitMap_hint(bm, nblocks, minpos) == minpos

\* BitMap::get_first_zero(): bitmap blocks from the hinted one on; the hint's
\* in-block offset applies to the first block only.
BitMap_get_first_zero(bm, nblocks, minpos) ==
    LET blockoff == minpos \div siz
        off == minpos % siz
        hits == {b \in blockoff .. (nblocks - 1) :
                   BitmapBlock_get_first_zero(bm, b, IF b = blockoff THEN off ELSE 0) # -1}
        InBlock(blockno) ==
            BitmapBlock_get_first_zero(bm, blockno,
                                       IF blockno = blockoff THEN off ELSE 0)
            + blockno * siz
    IN  IF hits = {} THEN -1
        ELSE InBlock(CHOOSE b \in hits : \A c \in hits : b <= c)

\* -------------------------------------------------------------- allocator
\* Each returns [d |-> the device after the call, ret |-> the return value].
alloc_inode(d) ==
    IF d.header.inode_num_free = 0 THEN [d |-> d, ret |-> -1]
    ELSE LET Took(ret) ==
                 IF ret = -1 THEN [d |-> Crash(d), ret |-> -1]
                 ELSE [d |-> [d EXCEPT !.inode_bitmap[ret] = TRUE,
                                       !.header.inode_num_free = @ - 1,
                                       !.inode_bitmap_min_pos = Max(@, ret)],
                       ret |-> ret]
         IN  Took(BitMap_get_first_zero(d.inode_bitmap,
                     d.header.data_block_bitmap_offset - d.header.inode_bitmap_offset,
                                        d.inode_bitmap_min_pos))

\* free_inode without the count.
free_inode_nocount(d, inodeno) == [d EXCEPT !.inode_bitmap[inodeno] = FALSE]

\* free_inode without the lowering of the hint.
free_inode_hint_kept(d, inodeno) ==
    IF ~d.inode_bitmap[inodeno] THEN Crash(d)
    ELSE [d EXCEPT !.inode_bitmap[inodeno] = FALSE,
                   !.header.inode_num_free = @ + 1]

free_inode(d, inodeno) ==
    IF ~d.inode_bitmap[inodeno] THEN Crash(d)
    ELSE [d EXCEPT !.inode_bitmap[inodeno] = FALSE,
                   !.header.inode_num_free = @ + 1,
                   !.inode_bitmap_min_pos = Min(@, inodeno)]

\* An allocator that hands out the first block of the data region each time.
alloc_data_first(d) == [d |-> d, ret |-> d.header.data_block_offset]

alloc_data(d) ==
    IF d.header.data_block_num_free = 0 THEN [d |-> d, ret |-> -1]
    ELSE LET Took(ret) ==
                 IF ret = -1 THEN [d |-> Crash(d), ret |-> -1]
                 ELSE [d |-> [d EXCEPT !.data_bitmap_min_pos = Max(@, ret),
                                       !.data_bitmap[ret] = TRUE,
                                       !.header.data_block_num_free = @ - 1],
                       ret |-> ret + d.header.data_block_offset]
         IN  Took(BitMap_get_first_zero(d.data_bitmap,
                     d.header.inode_block_offset - d.header.data_block_bitmap_offset,
                                        d.data_bitmap_min_pos))

\* A free_data that leaves the bitmap and the count alone.
free_data_skip(d, datano) == d

\* free_data(datano): datano is an absolute block number.
free_data(d, datano) ==
    LET pos == datano - d.header.data_block_offset
    IN  IF pos < 0 THEN Crash(d)
        ELSE IF ~d.data_bitmap[pos] THEN Crash(d)
        ELSE [d EXCEPT !.data_bitmap[pos] = FALSE,
                       !.header.data_block_num_free = @ + 1,
                       !.data_bitmap_min_pos = Min(@, pos)]

\* The allocator on a device whose writes can fail.  Each call issues two
\* writes, the bitmap block (BitMap::set / clear) and the header
\* (header.commit()); BlockProxy::commit keeps the error of a failed write
\* to itself and the four functions do not look at it.  after is the device
\* the call leaves when both writes land; a lost write leaves the block as it
\* was on d.  The hints are in memory and change either way.
WritesLost(d, after, bitmap_lost, header_lost) ==
    [after EXCEPT !.inode_bitmap = IF bitmap_lost THEN d.inode_bitmap ELSE @,
                  !.data_bitmap = IF bitmap_lost THEN d.data_bitmap ELSE @,
                  !.header = IF header_lost THEN d.header ELSE @]

\* ---------------------------------------------------------- extent engine
\* The number of leading nonzero slots of a pointer block (the loops of
\* get_block_size stop at the first zero slot).
LeadingNonZero(b) ==
    IF \A i \in 0 .. (POINTER_PER_BLOCK - 1) : b[i] # 0 THEN POINTER_PER_BLOCK
    ELSE CHOOSE i \in 0 .. (POINTER_PER_BLOCK - 1) :
            b[i] = 0 /\ \A j \in 0 .. (i - 1) : b[j] # 0

\* get_block_size counting every inner block of the outer block as full.
get_block_size_whole(d, inodeno) ==
    IF d.inodes[inodeno].direct_pointer = 0 THEN 0
    ELSE IF d.inodes[inodeno].indirect_pointer = 0 THEN 1
    ELSE IF LeadingNonZero(d.blocks[d.inodes[inodeno].indirect_pointer]) < POINTER_PER_BLOCK
    THEN 1 + LeadingNonZero(d.blocks[d.inodes[inodeno].indirect_pointer])
    ELSE IF d.inodes[inodeno].iindirect_pointer = 0 THEN 1 + POINTER_PER_BLOCK
    ELSE 1 + POINTER_PER_BLOCK
           + POINTER_PER_BLOCK
             * LeadingNonZero(d.blocks[d.inodes[inodeno].iindirect_pointer])

\* DataProxy::get_block_size(): the block count the code reads off the tiers.
\* When every slot of the outer block is in use the last inner block is not
\* looked at (the for loop runs off its end).
get_block_size(d, inodeno) ==
    LET inode == d.inodes[inodeno]
    IN  IF inode.direct_pointer = 0 THEN 0
        ELSE IF inode.indirect_pointer = 0 THEN 1
        ELSE LET n1 == LeadingNonZero(d.blocks[inode.indirect_pointer])
             IN  IF n1 < POINTER_PER_BLOCK THEN 1 + n1
                 ELSE IF inode.iindirect_pointer = 0 THEN 1 + POINTER_PER_BLOCK
                 ELSE LET iind == d.blocks[inode.iindirect_pointer]
                          now == LeadingNonZero(iind)
                      IN  IF now = POINTER_PER_BLOCK
                          THEN 1 + POINTER_PER_BLOCK
                                 + POINTER_PER_BLOCK * POINTER_PER_BLOCK
                          ELSE IF now = 0 THEN 1 + POINTER_PER_BLOCK
                          ELSE 1 + POINTER_PER_BLOCK
                                 + (now - 1) * POINTER_PER_BLOCK
                                 + LeadingNonZero(d.blocks[iind[now - 1]])

\* What one pass of resize's loop leaves: the device, the INodeProxy's copy
\* of the inode and whether the code jumped to ROLLBACK.
Pass(d, inode, rollback) == [d |-> d, inode |-> inode, rollback |-> rollback]

\* A proxy whose commit writes nothing.
SetSlot_lost(d, blockno, block, index, value) == d

\* A BlockProxy<PointerBlock> copy written back with one slot changed
\* (pointers[index] = value; commit()).
SetSlot(d, blockno, block, index, value) ==
    IF d.crashed THEN d
    ELSE [d EXCEPT !.blocks[blockno] = [block EXCEPT ![index] = value]]

\* The grow branch (block_now < block_need), direct tier: a is what
\* alloc_data gave.
GrowDirect_data(inode, a) ==
    IF a.ret = -1 THEN Pass(a.d, inode, TRUE)
    ELSE Pass(a.d, [inode EXCEPT !.direct_pointer = a.ret], FALSE)

GrowDirect(d, inode) == GrowDirect_data(inode, alloc_data(d))

\* An unwind of the new indirect block that also forgets the direct block.
GrowIndirect_data_dropping(inode1, ind_block, offset, extend_ind, a2) ==
    IF a2.ret = -1
    THEN IF a2.d.crashed \/ ~extend_ind THEN Pass(a2.d, inode1, TRUE)
         ELSE Pass(free_data(a2.d, inode1.indirect_pointer),
                   [inode1 EXCEPT !.indirect_pointer = 0, !.direct_pointer = 0], TRUE)
    ELSE Pass(SetSlot(a2.d, inode1.indirect_pointer, ind_block, offset, a2.ret),
              inode1, FALSE)

\* The grow branch, indirect tier.  The data block: ind_block is the proxy's
\* copy of the indirect block and a2 what alloc_data gave.
GrowIndirect_data(inode1, ind_block, offset, extend_ind, a2) ==
    IF a2.ret = -1
    THEN IF a2.d.crashed \/ ~extend_ind THEN Pass(a2.d, inode1, TRUE)
         ELSE Pass(free_data(a2.d, inode1.indirect_pointer),
                   [inode1 EXCEPT !.indirect_pointer = 0], TRUE)
    ELSE Pass(SetSlot(a2.d, inode1.indirect_pointer, ind_block, offset, a2.ret),
              inode1, FALSE)

GrowIndirect_slot(d1, inode1, offset, extend_ind) ==
    GrowIndirect_data(inode1, d1.blocks[inode1.indirect_pointer], offset,
                      extend_ind, alloc_data(d1))

\* The indirect block, allocated and zeroed when the tier is entered
\* (offset == 0): a1 is what alloc_data gave.
GrowIndirect_extend(inode, offset, a1) ==
    IF a1.ret = -1 THEN Pass(a1.d, inode, TRUE)
    ELSE GrowIndirect_slot([a1.d EXCEPT !.blocks[a1.ret] = ZeroBlock],
                           [inode EXCEPT !.indirect_pointer = a1.ret],
                           offset, TRUE)

GrowIndirect(d, inode, block_now) ==
    IF block_now - 1 = 0
    THEN GrowIndirect_extend(inode, block_now - 1, alloc_data(d))
    ELSE GrowIndirect_slot(d, inode, block_now - 1, FALSE)

\* The grow branch, double-indirect tier.  The data block's alloc_data
\* failed and d3 is the device after the inner block was released (if this
\* pass allocated it): the outer block's copy is written back and the outer
\* block released (if this pass allocated it).
GrowIIndirect_unwind(d3, inode1, iind_block, id_ind, extend_ind, extend_iind) ==
    IF d3.crashed \/ ~extend_iind
    THEN Pass(SetSlot(d3, inode1.iindirect_pointer, iind_block, id_ind,
                      IF extend_ind THEN 0 ELSE iind_block[id_ind]),
              inode1, TRUE)
    ELSE Pass(free_data(SetSlot(d3, inode1.iindirect_pointer, iind_block, id_ind,
                                IF extend_ind THEN 0 ELSE iind_block[id_ind]),
                        inode1.iindirect_pointer),
              [inode1 EXCEPT !.iindirect_pointer = 0], TRUE)

\* The data block: iind_block is the proxy's copy of the outer block, d2 the
\* device the inner block's copy is read from and a3 what alloc_data gave.
GrowIIndirect_data(d2, inode1, iind_block, id_ind, id_offset, extend_ind, extend_iind, a3) ==
    IF a3.ret = -1
    THEN IF a3.d.crashed THEN Pass(a3.d, inode1, TRUE)
         ELSE GrowIIndirect_unwind(IF extend_ind
                                   THEN free_data(a3.d, iind_block[id_ind])
                                   ELSE a3.d,
                                   inode1, iind_block, id_ind,
                                   extend_ind, extend_iind)
    ELSE Pass(SetSlot(a3.d, iind_block[id_ind], d2.blocks[iind_block[id_ind]],
                      id_offset, a3.ret),
              inode1, FALSE)

GrowIIndirect_slot(d2, inode1, id_ind, id_offset, extend_ind, extend_iind) ==
    GrowIIndirect_data(d2, inode1, d2.blocks[inode1.iindirect_pointer],
                       id_ind, id_offset, extend_ind, extend_iind, alloc_data(d2))

\* The inner block, allocated and zeroed when its first slot is filled
\* (id_offset == 0): a2 is what alloc_data gave.
GrowIIndirect_inner(inode1, id_ind, id_offset, extend_iind, a2) ==
    IF a2.ret = -1
    THEN IF a2.d.crashed \/ ~extend_iind THEN Pass(a2.d, inode1, TRUE)
         ELSE Pass(free_data(a2.d, inode1.iindirect_pointer),
                   [inode1 EXCEPT !.iindirect_pointer = 0], TRUE)
    ELSE GrowIIndirect_slot(
             [a2.d EXCEPT !.blocks[a2.ret] = ZeroBlock,
                          !.blocks[inode1.iindirect_pointer][id_ind] = a2.ret],
             inode1, id_ind, id_offset, TRUE, extend_iind)

GrowIIndirect_tier(d1, inode1, id_ind, id_offset, extend_iind) ==
    IF id_offset = 0
    THEN GrowIIndirect_inner(inode1, id_ind, id_offset, extend_iind, alloc_data(d1))
    ELSE GrowIIndirect_slot(d1, inode1, id_ind, id_offset, FALSE, extend_iind)

\* The outer block, allocated and zeroed when the tier is entered
\* (id_offset == 0 and id_ind == 0): a1 is what alloc_data gave.
GrowIIndirect_outer(inode, id_ind, id_offset, a1) ==
    IF a1.ret = -1 THEN Pass(a1.d, inode, TRUE)
    ELSE GrowIIndirect_tier([a1.d EXCEPT !.blocks[a1.ret] = ZeroBlock],
                            [inode EXCEPT !.iindirect_pointer = a1.ret],
                            id_ind, id_offset, TRUE)

GrowIIndirect_at(d, inode, id_ind, id_offset) ==
    IF id_offset = 0 /\ id_ind = 0
    THEN GrowIIndirect_outer(inode, id_ind, id_offset, alloc_data(d))
    ELSE GrowIIndirect_tier(d, inode, id_ind, id_offset, FALSE)

GrowIIndirect(d, inode, block_now) ==
    GrowIIndirect_at(d, inode,
                     (block_now - (1 + POINTER_PER_BLOCK)) \div POINTER_PER_BLOCK,
                     (block_now - (1 + POINTER_PER_BLOCK)) % POINTER_PER_BLOCK)

Grow(d, inode, block_now) ==
    IF block_now < 1 THEN GrowDirect(d, inode)
    ELSE IF block_now < 1 + POINTER_PER_BLOCK THEN GrowIndirect(d, inode, block_now)
    ELSE GrowIIndirect(d, inode, block_now)

\* A shrink of the direct tier that leaves the pointer in the inode.
ShrinkDirect_keep(d, inode) ==
    Pass(free_data(d, inode.direct_pointer), inode, FALSE)

\* The shrink branch (block_now > block_need): release logical block
\* block_now - 1 and the pointer blocks it was the first slot of.
ShrinkDirect(d, inode) ==
    Pass(free_data(d, inode.direct_pointer),
         [inode EXCEPT !.direct_pointer = 0], FALSE)

\* d2 is the device after the data block was released and the indirect
\* block's copy written back.
ShrinkIndirect_done(d2, inode, offset) ==
    IF d2.crashed \/ offset # 0 THEN Pass(d2, inode, FALSE)
    ELSE Pass(free_data(d2, inode.indirect_pointer),
              [inode EXCEPT !.indirect_pointer = 0], FALSE)

ShrinkIndirect_at(d, inode, ind_block, offset) ==
    ShrinkIndirect_done(SetSlot(free_data(d, ind_block[offset]),
                                inode.indirect_pointer, ind_block, offset, 0),
                        inode, offset)

ShrinkIndirect(d, inode, block_to_shrink) ==
    ShrinkIndirect_at(d, inode, d.blocks[inode.indirect_pointer],
                      block_to_shrink - 1)

\* d4 is the device after the inner block was released and the outer block's
\* copy written back.
ShrinkIIndirect_outer(d4, inode, id_ind) ==
    IF d4.crashed \/ id_ind # 0 THEN Pass(d4, inode, FALSE)
    ELSE Pass(free_data(d4, inode.iindirect_pointer),
              [inode EXCEPT !.iindirect_pointer = 0], FALSE)

\* d2 is the device after the data block was released and the inner block's
\* copy written back.
ShrinkIIndirect_inner(d2, inode, iind_block, id_ind, id_offset) ==
    IF d2.crashed \/ id_offset # 0 THEN Pass(d2, inode, FALSE)
    ELSE ShrinkIIndirect_outer(SetSlot(free_data(d2, iind_block[id_ind]),
                                       inode.iindirect_pointer, iind_block,
                                       id_ind, 0),
                               inode, id_ind)

ShrinkIIndirect_at(d, inode, iind_block, ind_block, id_ind, id_offset) ==
    ShrinkIIndirect_inner(SetSlot(free_data(d, ind_block[id_offset]),
                                  iind_block[id_ind], ind_block, id_offset, 0),
                          inode, iind_block, id_ind, id_offset)

ShrinkIIndirect_in(d, inode, iind_block, id_ind, id_offset) ==
    ShrinkIIndirect_at(d, inode, iind_block, d.blocks[iind_block[id_ind]],
                       id_ind, id_offset)

ShrinkIIndirect(d, inode, block_to_shrink) ==
    ShrinkIIndirect_in(d, inode, d.blocks[inode.iindirect_pointer],
        (block_to_shrink - (1 + POINTER_PER_BLOCK)) \div POINTER_PER_BLOCK,
        (block_to_shrink - (1 + POINTER_PER_BLOCK)) % POINTER_PER_BLOCK)

\* A shrink that releases logical block 0 whatever the block count.
Shrink_first(d, inode, block_now) ==
    Pass(free_data(d, inode.direct_pointer),
         [inode EXCEPT !.direct_pointer = 0], FALSE)

Shrink(d, inode, block_now) ==
    IF block_now - 1 < 1 THEN ShrinkDirect(d, inode)
    ELSE IF block_now - 1 < 1 + POINTER_PER_BLOCK
    THEN ShrinkIndirect(d, inode, block_now - 1)
    ELSE ShrinkIIndirect(d, inode, block_now - 1)

\* DataProxy::resize(size).  Returns [d, ret]: ret is 0 or ENOSPC; when an
\* assert fails on the way d.crashed is set and ret means nothing.
RECURSIVE resize(_, _, _)
RECURSIVE ResizeLoop(_, _, _, _, _, _)

\* The while loop of resize, entered with what the pass before left: the
\* copy of the inode is committed after the loop (with filesize = size) or
\* at ROLLBACK (as it stands), followed there by resize(size_orig).
ResizeLoop(pass, inodeno, block_now, block_need, size, size_orig) ==
    IF pass.d.crashed THEN [d |-> pass.d, ret |-> 0]
    ELSE IF pass.rollback
    THEN [d |-> resize([pass.d EXCEPT !.inodes[inodeno] = pass.inode],
                       inodeno, size_orig).d,
          ret |-> ENOSPC]
    ELSE IF block_now = block_need
    THEN [d |-> [pass.d EXCEPT !.inodes[inodeno] =
                    [pass.inode EXCEPT !.filesize = size % UINT32_RANGE]],
          ret |-> 0]
    ELSE IF block_now < block_need
    THEN ResizeLoop(Grow(pass.d, pass.inode, block_now), inodeno,
                    block_now + 1,
                    block_need, size, size_orig)
    ELSE ResizeLoop(Shrink(pass.d, pass.inode, block_now), inodeno,
                    block_now - 1, block_need, size, size_orig)

resize(d, inodeno, size) ==
    ResizeLoop(Pass(d, d.inodes[inodeno], FALSE), inodeno,
               get_block_size(d, inodeno),
               Max(0, (size + BLOCK_SIZE - 1) \div BLOCK_SIZE),
               size, d.inodes[inodeno].filesize)

\* The block proxies that resize(size) lets go out of scope while open
\* (neither committed nor dropped: "Unexpected destruct").  The direct tier
\* builds none; the double-indirect tier and the shrink branch commit or drop
\* each one on every path; the indirect tier leaves ind_block open when the
\* alloc_data for the data block fails and the code jumps to ROLLBACK.
\* a2 is what that alloc_data gave.
GrowIndirect_unclosed_data(a2) == IF a2.ret = -1 /\ ~a2.d.crashed THEN 1 ELSE 0

\* At offset == 0 the indirect block is allocated first.
Grow_unclosed(d, block_now) ==
    IF block_now < 1 \/ block_now >= 1 + POINTER_PER_BLOCK THEN 0
    ELSE IF block_now - 1 # 0 THEN GrowIndirect_unclosed_data(alloc_data(d))
    ELSE IF alloc_data(d).ret = -1 THEN 0
    ELSE GrowIndirect_unclosed_data(alloc_data(alloc_data(d).d))

RECURSIVE resize_unclosed(_, _, _)
RECURSIVE UnclosedLoop(_, _, _, _, _, _)
UnclosedLoop(pass, inodeno, block_now, block_need, size_orig, n) ==
    IF pass.d.crashed THEN n
    ELSE IF pass.rollback
    THEN n + resize_unclosed([pass.d EXCEPT !.inodes[inodeno] = pass.inode],
                             inodeno, size_orig)
    ELSE IF block_now = block_need THEN n
    ELSE IF block_now < block_need
    THEN UnclosedLoop(Grow(pass.d, pass.inode, block_now), inodeno, block_now + 1,
                      block_need, size_orig, n + Grow_unclosed(pass.d, block_now))
    ELSE UnclosedLoop(Shrink(pass.d, pass.inode, block_now), inodeno, block_now - 1,
                      block_need, size_orig, n)

resize_unclosed(d, inodeno, size) ==
    UnclosedLoop(Pass(d, d.inodes[inodeno], FALSE), inodeno,
                 get_block_size(d, inodeno),
                 Max(0, (size + BLOCK_SIZE - 1) \div BLOCK_SIZE),
                 d.inodes[inodeno].filesize, 0)

\* The block writes of resize(size) that set or clear a bitmap bit or a
\* pointer, in the order they are issued.  "set" b, "clear" b: the commit of
\* the bitmap block inside alloc_data / free_data of block b.  "store" b,
\* "erase" b: the commit of a pointer block or of the inode that puts a
\* pointer to b on the device, or takes it off.
Wr(w, b) == [w |-> w, b |-> b]

\* Indirect tier.  a2 is what alloc_data gave for the data block.
GrowIndirect_writes_data(indirect_pointer, extend_ind, a2) ==
    IF a2.d.crashed THEN <<>>
    ELSE IF a2.ret = -1
    THEN (IF extend_ind THEN <<Wr("clear", indirect_pointer)>> ELSE <<>>)
    ELSE <<Wr("set", a2.ret), Wr("store", a2.ret)>>

GrowIndirect_writes_extend(a1) ==
    IF a1.ret = -1 THEN <<>>
    ELSE <<Wr("set", a1.ret)>>
         \o GrowIndirect_writes_data(a1.ret, TRUE, alloc_data(a1.d))

\* Double-indirect tier.  a3 is what alloc_data gave for the data block,
\* inner the inner pointer block, iindirect_pointer the outer one.
GrowIIndirect_writes_data(iindirect_pointer, inner, extend_ind, extend_iind, a3) ==
    IF a3.d.crashed THEN <<>>
    ELSE IF a3.ret = -1
    THEN (IF extend_ind THEN <<Wr("clear", inner), Wr("erase", inner)>> ELSE <<>>)
         \o (IF extend_iind THEN <<Wr("clear", iindirect_pointer)>> ELSE <<>>)
    ELSE <<Wr("set", a3.ret), Wr("store", a3.ret)>>

\* a2 is what alloc_data gave for the inner block (id_offset == 0).
GrowIIndirect_writes_inner(iindirect_pointer, extend_iind, a2) ==
    IF a2.d.crashed THEN <<>>
    ELSE IF a2.ret = -1
    THEN (IF extend_iind THEN <<Wr("clear", iindirect_pointer)>> ELSE <<>>)
    ELSE <<Wr("set", a2.ret), Wr("store", a2.ret)>>
         \o GrowIIndirect_writes_data(iindirect_pointer, a2.ret, TRUE, extend_iind,
                                      alloc_data(a2.d))

GrowIIndirect_writes_tier(d1, iindirect_pointer, id_ind, id_offset, extend_iind) ==
    IF id_offset = 0
    THEN GrowIIndirect_writes_inner(iindirect_pointer, extend_iind, alloc_data(d1))
    ELSE GrowIIndirect_writes_data(iindirect_pointer,
                                   d1.blocks[iindirect_pointer][id_ind],
                                   FALSE, extend_iind, alloc_data(d1))

\* The outer block is allocated first when the tier is entered.
GrowIIndirect_writes_at(d, inode, id_ind, id_offset) ==
    IF id_offset # 0 \/ id_ind # 0
    THEN GrowIIndirect_writes_tier(d, inode.iindirect_pointer, id_ind, id_offset, FALSE)
    ELSE IF alloc_data(d).ret = -1 THEN <<>>
    ELSE <<Wr("set", alloc_data(d).ret)>>
         \o GrowIIndirect_writes_tier(alloc_data(d).d, alloc_data(d).ret,
                                      id_ind, id_offset, TRUE)

Grow_writes(d, inode, block_now) ==
    IF block_now < 1
    THEN (IF alloc_data(d).ret = -1 THEN <<>> ELSE <<Wr("set", alloc_data(d).ret)>>)
    ELSE IF block_now < 1 + POINTER_PER_BLOCK
    THEN (IF block_now - 1 = 0 THEN GrowIndirect_writes_extend(alloc_data(d))
          ELSE GrowIndirect_writes_data(inode.indirect_pointer, FALSE, alloc_data(d)))
    ELSE GrowIIndirect_writes_at(d, inode,
             (block_now - (1 + POINTER_PER_BLOCK)) \div POINTER_PER_BLOCK,
             (block_now - (1 + POINTER_PER_BLOCK)) % POINTER_PER_BLOCK)

\* The shrink branch: free_data of the block comes first, the commit of the
\* pointer block with the slot zeroed second.
ShrinkIndirect_writes(inode, ind_block, offset) ==
    <<Wr("clear", ind_block[offset]), Wr("erase", ind_block[offset])>>
    \o (IF offset = 0 THEN <<Wr("clear", inode.indirect_pointer)>> ELSE <<>>)

ShrinkIIndirect_writes(inode, iind_block, ind_block, id_ind, id_offset) ==
    <<Wr("clear", ind_block[id_offset]), Wr("erase", ind_block[id_offset])>>
    \o (IF id_offset = 0
        THEN <<Wr("clear", iind_block[id_ind]), Wr("erase", iind_block[id_ind])>>
             \o (IF id_ind = 0 THEN <<Wr("clear", inode.iindirect_pointer)>> ELSE <<>>)
        ELSE <<>>)

Shrink_writes(d, inode, block_now) ==
    IF block_now - 1 < 1 THEN <<Wr("clear", inode.direct_pointer)>>
    ELSE IF block_now - 1 < 1 + POINTER_PER_BLOCK
    THEN ShrinkIndirect_writes(inode, d.blocks[inode.indirect_pointer], block_now - 2)
    ELSE ShrinkIIndirect_writes(inode, d.blocks[inode.iindirect_pointer],
             d.blocks[d.blocks[inode.iindirect_pointer][
                 (block_now - 1 - (1 + POINTER_PER_BLOCK)) \div POINTER_PER_BLOCK]],
             (block_now - 1 - (1 + POINTER_PER_BLOCK)) \div POINTER_PER_BLOCK,
             (block_now - 1 - (1 + POINTER_PER_BLOCK)) % POINTER_PER_BLOCK)

\* inode.commit(): what the write of the inode does to one of its pointers,
\* old on the device and new in the proxy's copy.
Pointer_writes(old, new) ==
    IF old = new THEN <<>>
    ELSE (IF old # 0 THEN <<Wr("erase", old)>> ELSE <<>>)
         \o (IF new # 0 THEN <<Wr("store", new)>> ELSE <<>>)

INode_writes(old, new) ==
    Pointer_writes(old.direct_pointer, new.direct_pointer)
    \o Pointer_writes(old.indirect_pointer, new.indirect_pointer)
    \o Pointer_writes(old.iindirect_pointer, new.iindirect_pointer)

RECURSIVE resize_writes(_, _, _)
RECURSIVE WritesLoop(_, _, _, _, _, _)
WritesLoop(pass, inodeno, block_now, block_need, size_orig, log) ==
    IF pass.d.crashed THEN log
    ELSE IF pass.rollback
    THEN log \o INode_writes(pass.d.inodes[inodeno], pass.inode)
             \o resize_writes([pass.d EXCEPT !.inodes[inodeno] = pass.inode],
                              inodeno, size_orig)
    ELSE IF block_now = block_need
    THEN log \o INode_writes(pass.d.inodes[inodeno], pass.inode)
    ELSE IF block_now < block_need
    THEN WritesLoop(Grow(pass.d, pass.inode, block_now), inodeno, block_now + 1,
                    block_need, size_orig,
                    log \o Grow_writes(pass.d, pass.inode, block_now))
    ELSE WritesLoop(Shrink(pass.d, pass.inode, block_now), inodeno, block_now - 1,
                    block_need, size_orig,
                    log \o Shrink_writes(pass.d, pass.inode, block_now))

resize_writes(d, inodeno, size) ==
    WritesLoop(Pass(d, d.inodes[inodeno], FALSE), inodeno,
               get_block_size(d, inodeno),
               Max(0, (size + BLOCK_SIZE - 1) \div BLOCK_SIZE),
               d.inodes[inodeno].filesize, <<>>)

\* The calls and the loop passes of one resize in the order made.  "call":
\* a resize entered at recursion depth depth (0: the caller's) with block_now
\* = now and block_need = need; "pass": one iteration of its while loop
\* begun with block_now = now; "rollback": the jump to ROLLBACK, which is
\* followed by the call resize(size_orig) one level deeper.
Ev(kind, depth, now, need) == [kind |-> kind, depth |-> depth, now |-> now, need |-> need]

RECURSIVE resize_trace(_, _, _, _, _)
RECURSIVE TraceLoop(_, _, _, _, _, _, _)
TraceLoop(pass, inodeno, block_now, block_need, size_orig, depth, log) ==
    IF pass.d.crashed THEN log
    ELSE IF pass.rollback
    THEN resize_trace([pass.d EXCEPT !.inodes[inodeno] = pass.inode],
                      inodeno, size_orig, depth + 1,
                      log \o <<Ev("rollback", depth, block_now - 1, block_need)>>)
    ELSE IF block_now = block_need THEN log
    ELSE IF block_now < block_need
    THEN TraceLoop(Grow(pass.d, pass.inode, block_now), inodeno, block_now + 1,
                   block_need, size_orig, depth,
                   log \o <<Ev("pass", depth, block_now, block_need)>>)
    ELSE TraceLoop(Shrink(pass.d, pass.inode, block_now), inodeno, block_now - 1,
                   block_need, size_orig, depth,
                   log \o <<Ev("pass", depth, block_now, block_need)>>)

resize_trace(d, inodeno, size, depth, log) ==
    TraceLoop(Pass(d, d.inodes[inodeno], FALSE), inodeno,
              get_block_size(d, inodeno),
              Max(0, (size + BLOCK_SIZE - 1) \div BLOCK_SIZE),
              d.inodes[inodeno].filesize, depth,
              log \o <<Ev("call", depth, get_block_size(d, inodeno),
                          Max(0, (size + BLOCK_SIZE - 1) \div BLOCK_SIZE))>>)

\* ------------------------------------------------------------- byte I/O
\* DataProxy::get_data_block(datano): the physical block of logical block
\* datano, or -1 where one of its asserts fails.
get_data_block(d, inodeno, datano) ==
    LET inode == d.inodes[inodeno]
    IN  IF datano = 0
        THEN (IF inode.direct_pointer = 0 THEN -1 ELSE inode.direct_pointer)
        ELSE IF inode.indirect_pointer = 0 THEN -1
        ELSE IF datano < 1 + POINTER_PER_BLOCK
        THEN LET p == d.blocks[inode.indirect_pointer][datano - 1]
             IN  IF p = 0 THEN -1 ELSE p
        ELSE IF inode.iindirect_pointer = 0 THEN -1
        ELSE LET offset0 == datano - (1 + POINTER_PER_BLOCK)
                 id_ind == offset0 \div POINTER_PER_BLOCK
                 id_offset == offset0 % POINTER_PER_BLOCK
                 mid == d.blocks[inode.iindirect_pointer][id_ind]
             IN  IF mid = 0 THEN -1
                 ELSE LET p == d.blocks[mid][id_offset]
                      IN  IF p = 0 THEN -1 ELSE p

\* DataProxy::read(offset, size): [data |-> the cells copied, crashed].
\* Each pass copies min(size, BLOCK_SIZE) cells starting at the in-block
\* offset; the cells of a pass that lie past the end of the block buffer are
\* not the file's: junk stands for what the copy finds there.
ReadBlock(d, block_no, offset_in_block, bytes_to_read, junk) ==
    [i \in 1 .. bytes_to_read |->
        IF offset_in_block + i - 1 < BLOCK_SIZE
        THEN d.blocks[block_no][offset_in_block + i - 1]
        ELSE junk]

RECURSIVE ReadLoop(_, _, _, _, _, _)
ReadLoop(d, inodeno, offset, size, acc, junk) ==
    IF size = 0 THEN [data |-> acc, crashed |-> FALSE]
    ELSE IF get_data_block(d, inodeno, offset \div BLOCK_SIZE) = -1
    THEN [data |-> acc, crashed |-> TRUE]
    ELSE ReadLoop(d, inodeno, offset + Min(size, BLOCK_SIZE),
                  size - Min(size, BLOCK_SIZE),
                  acc \o ReadBlock(d, get_data_block(d, inodeno, offset \div BLOCK_SIZE),
                                   offset % BLOCK_SIZE, Min(size, BLOCK_SIZE), junk),
                  junk)

\* offset > filesize makes the unsigned length wrap to a huge value: the loop
\* then runs until an assert of get_data_block fails or the copy leaves the
\* caller's buffer; the model ends that as a crash.
DataProxy_read(d, inodeno, offset, size, junk) ==
    IF offset > d.inodes[inodeno].filesize THEN [data |-> <<>>, crashed |-> TRUE]
    ELSE ReadLoop(d, inodeno, offset,
                  Min(offset + size, d.inodes[inodeno].filesize) - offset,
                  <<>>, junk)

\* The block loop of DataProxy::read and DataProxy::write on a clamped length
\* of size cells from offset: whether some pass copies more than the
\* BLOCK_SIZE - offset_in_block cells the block buffer holds from there.
RECURSIVE CopyOverruns(_, _)
CopyOverruns(offset, size) ==
    IF size <= 0 THEN FALSE
    ELSE IF (offset % BLOCK_SIZE) + Min(size, BLOCK_SIZE) > BLOCK_SIZE THEN TRUE
    ELSE CopyOverruns(offset + Min(size, BLOCK_SIZE), size - Min(size, BLOCK_SIZE))

\* DataProxy::write(offset, size, data): [d, ret].  A pass whose copy runs
\* past the end of the block buffer overwrites what follows the buffer in
\* memory: undefined behaviour, here either "lost" (the cells past the
\* buffer are dropped and the loop goes on) or "crash".
WriteBlock(d, block_no, offset_in_block, bytes_to_write, data) ==
    [d EXCEPT !.blocks[block_no] =
        [i \in 0 .. (BLOCK_SIZE - 1) |->
            IF i >= offset_in_block /\ i < offset_in_block + bytes_to_write
            THEN data[i - offset_in_block + 1]
            ELSE d.blocks[block_no][i]]]

RECURSIVE WriteLoop(_, _, _, _, _, _)
WriteLoop(d, inodeno, offset, size, data, ub) ==
    IF size = 0 \/ d.crashed THEN d
    ELSE IF get_data_block(d, inodeno, offset \div BLOCK_SIZE) = -1 THEN Crash(d)
    ELSE IF (offset % BLOCK_SIZE) + Min(size, BLOCK_SIZE) > BLOCK_SIZE /\ ub = "crash"
    THEN Crash(d)
    ELSE WriteLoop(WriteBlock(d, get_data_block(d, inodeno, offset \div BLOCK_SIZE),
                              offset % BLOCK_SIZE, Min(size, BLOCK_SIZE), data),
                   inodeno, offset + Min(size, BLOCK_SIZE),
                   size - Min(size, BLOCK_SIZE),
                   SubSeq(data, Min(size, BLOCK_SIZE) + 1, Len(data)), ub)

\* The loop on the clamped length (size = filesize - offset when the write
\* would end past the end of the file); a negative one stands for the
\* unsigned wrap of filesize - offset.
DataProxy_write_clamped(d, inodeno, offset, clamped, data, ub) ==
    IF clamped < 0 THEN [d |-> Crash(d), ret |-> 0]
    ELSE [d |-> WriteLoop(d, inodeno, offset, clamped, data, ub), ret |-> clamped]

DataProxy_write(d, inodeno, offset, size, data, ub) ==
    DataProxy_write_clamped(d, inodeno, offset,
        IF offset + size > d.inodes[inodeno].filesize
        THEN d.inodes[inodeno].filesize - offset ELSE size,
        data, ub)

\* ------------------------------------------------------------ directories
\* A DirectoryProxy::Item (file_inode, filename) stored in one cell.
ItemRadix == MAX_BLOCK_NUM
ItemPack(item) == item.filename * ItemRadix + item.file_inode
ItemUnpack(cell) == [file_inode |-> cell % ItemRadix, filename |-> cell \div ItemRadix]
\* sizeof(Item): 32 bytes in the code, one cell in the model's unit.
ItemSize == 1

DirectoryProxy_length(d, inodeno) == d.inodes[inodeno].filesize \div ItemSize

\* DirectoryProxy::get(index): [item, crashed].
DirectoryProxy_item(r) ==
    IF r.crashed THEN [item |-> ItemUnpack(0), crashed |-> TRUE]
    ELSE [item |-> ItemUnpack(r.data[1]), crashed |-> FALSE]

DirectoryProxy_get(d, inodeno, index) ==
    IF ~(index < DirectoryProxy_length(d, inodeno))
    THEN [item |-> ItemUnpack(0), crashed |-> TRUE]
    ELSE DirectoryProxy_item(DataProxy_read(d, inodeno, index * ItemSize, ItemSize, 0))

\* DirectoryProxy::set(index, item): the device after it.
DirectoryProxy_set(d, inodeno, index, item) ==
    IF ~(index < DirectoryProxy_length(d, inodeno)) THEN Crash(d)
    ELSE DataProxy_write(d, inodeno, index * ItemSize, ItemSize,
                         <<ItemPack(item)>>, "lost").d

\* DirectoryProxy::push(item): [d, ret].
DirectoryProxy_push_set(r, inodeno, length, item) ==
    IF r.d.crashed \/ r.ret # 0 THEN r
    ELSE [d |-> DirectoryProxy_set(r.d, inodeno, length, item), ret |-> 0]

DirectoryProxy_push(d, inodeno, item) ==
    DirectoryProxy_push_set(
        resize(d, inodeno, (DirectoryProxy_length(d, inodeno) + 1) * ItemSize),
        inodeno, DirectoryProxy_length(d, inodeno), item)

\* An erase that overwrites the item and leaves the directory's size alone.
DirectoryProxy_erase_keep(d, inodeno, index) ==
    DirectoryProxy_set(d, inodeno, index,
        DirectoryProxy_get(d, inodeno, DirectoryProxy_length(d, inodeno) - 1).item)

\* DirectoryProxy::erase(index): the device after it.  Its callers pass the
\* index of an item they found, so length >= 1.  assert(!data.resize(..))
\* always runs the resize (the assert macro is never compiled out).
DirectoryProxy_erase_resized(r) == IF r.ret # 0 THEN Crash(r.d) ELSE r.d

DirectoryProxy_erase_resize(d1, inodeno, length) ==
    IF d1.crashed THEN d1
    ELSE DirectoryProxy_erase_resized(resize(d1, inodeno, (length - 1) * ItemSize))

DirectoryProxy_erase_set(d, inodeno, index, length, last_) ==
    IF last_.crashed THEN Crash(d)
    ELSE DirectoryProxy_erase_resize(
             DirectoryProxy_set(d, inodeno, index, last_.item), inodeno, length)

DirectoryProxy_erase(d, inodeno, index) ==
    DirectoryProxy_erase_set(d, inodeno, index, DirectoryProxy_length(d, inodeno),
        DirectoryProxy_get(d, inodeno, DirectoryProxy_length(d, inodeno) - 1))

\* --------------------------------------------------- namespace operations
\* A path is the sequence of its components (file names, as numbers); the
\* leaf is the last one and the parent's path the rest.
LongName == NumNames + 1
\* filename.length() of a name.
NameLength(name) ==
    IF name = 0 THEN 0 ELSE IF name = LongName THEN MAX_NAME_LEN + 1 ELSE 1

\* get_file_in_inode(inodeno, filename): [ret, crashed]; ret is the inode
\* number of the first item named filename, or -1.  The type of inodeno is
\* not looked at: its cells are read as items whatever it is.
RECURSIVE FindItem(_, _, _, _)
FindItem_seen(d, inodeno, filename, i, file) ==
    IF file.crashed THEN [index |-> -1, crashed |-> TRUE]
    ELSE IF file.item.filename = filename THEN [index |-> i, crashed |-> FALSE]
    ELSE FindItem(d, inodeno, filename, i + 1)

FindItem(d, inodeno, filename, i) ==
    IF i >= DirectoryProxy_length(d, inodeno) THEN [index |-> -1, crashed |-> FALSE]
    ELSE FindItem_seen(d, inodeno, filename, i, DirectoryProxy_get(d, inodeno, i))

get_file_in_inode_found(d, inodeno, f) ==
    IF f.crashed THEN [ret |-> -1, crashed |-> TRUE]
    ELSE IF f.index = -1 THEN [ret |-> -1, crashed |-> FALSE]
    ELSE [ret |-> DirectoryProxy_get(d, inodeno, f.index).item.file_inode,
          crashed |-> FALSE]

get_file_in_inode(d, inodeno, filename) ==
    get_file_in_inode_found(d, inodeno, FindItem(d, inodeno, filename, 0))

\* split_path(str) on a string of characters, Slash being '/'.  Positions
\* count from 0 as in the code; npos and the int -1 are NPOS.
Slash == 0
NPOS == -1

\* str.find('/', pos) and str.find_first_not_of('/').
find(str, pos) ==
    IF pos = NPOS \/ \A i \in pos .. (Len(str) - 1) : str[i + 1] # Slash THEN NPOS
    ELSE CHOOSE i \in pos .. (Len(str) - 1) :
             str[i + 1] = Slash /\ \A j \in pos .. (i - 1) : str[j + 1] # Slash

find_first_not_of(str) ==
    IF \A i \in 0 .. (Len(str) - 1) : str[i + 1] = Slash THEN NPOS
    ELSE CHOOSE i \in 0 .. (Len(str) - 1) :
             str[i + 1] # Slash /\ \A j \in 0 .. (i - 1) : str[j + 1] = Slash

\* The while loop and the push of the rest after it; start < str.length()
\* compares unsigned, so a start of -1 is not below the length.
RECURSIVE SplitLoop(_, _, _, _)
SplitLoop(str, start, end, ret) ==
    IF end # NPOS
    THEN SplitLoop(str, end + 1, find(str, end + 1),
                   Append(ret, SubSeq(str, start + 1, end)))
    ELSE IF start # NPOS /\ start < Len(str)
    THEN Append(ret, SubSeq(str, start + 1, Len(str)))
    ELSE ret

split_path(str) ==
    SplitLoop(str, find_first_not_of(str), find(str, find_first_not_of(str)), <<>>)

\* get_inode_from_path(path): [ret, crashed], walking from inode 0.
RECURSIVE WalkPath(_, _, _)
WalkPath_step(d, path, f) ==
    IF f.crashed \/ f.ret = -1 THEN f
    ELSE WalkPath(d, f.ret, Tail(path))

WalkPath(d, now_inode, path) ==
    IF path = <<>> THEN [ret |-> now_inode, crashed |-> FALSE]
    ELSE WalkPath_step(d, path, get_file_in_inode(d, now_inode, Head(path)))

get_inode_from_path(d, path) == WalkPath(d, 0, path)

DirName(path) == SubSeq(path, 1, Len(path) - 1)
FileName(path) == path[Len(path)]

\* make_node's handling of push without the free_inode on failure.
make_node_pushed_kept(file_inode, p) ==
    IF p.d.crashed THEN [d |-> p.d, ret |-> 0]
    ELSE IF p.ret # 0 THEN [d |-> p.d, ret |-> -p.ret]
    ELSE [d |-> p.d, ret |-> 0]

\* make_node(path, mode): [d, ret].  p is what directory.push gave.
make_node_pushed(file_inode, p) ==
    IF p.d.crashed THEN [d |-> p.d, ret |-> 0]
    ELSE IF p.ret # 0 THEN [d |-> free_inode(p.d, file_inode), ret |-> -p.ret]
    ELSE [d |-> p.d, ret |-> 0]

\* a is what alloc_inode gave: the new inode is zeroed, typed and pushed.
make_node_new(d, dirnode, filename, mode, a) ==
    IF a.d.crashed THEN [d |-> a.d, ret |-> 0]
    ELSE IF a.ret = -1 THEN [d |-> d, ret |-> -ENOSPC]
    ELSE make_node_pushed(a.ret,
             DirectoryProxy_push(
                 [a.d EXCEPT !.inodes[a.ret] = [ZeroINode EXCEPT !.type = mode]],
                 dirnode, [file_inode |-> a.ret, filename |-> filename]))

\* make_node without the test for an existing leaf.
make_node_in_create(d, dirnode, filename, mode, file) ==
    IF file.crashed THEN [d |-> Crash(d), ret |-> 0]
    ELSE IF NameLength(filename) > MAX_NAME_LEN THEN [d |-> d, ret |-> -ENOSPC]
    ELSE make_node_new(d, dirnode, filename, mode, alloc_inode(d))

\* file is what get_file_in_inode(dirnode, filename) gave.
make_node_in(d, dirnode, filename, mode, file) ==
    IF file.crashed THEN [d |-> Crash(d), ret |-> 0]
    ELSE IF file.ret # -1 THEN [d |-> d, ret |-> 0]
    ELSE IF NameLength(filename) > MAX_NAME_LEN THEN [d |-> d, ret |-> -ENOSPC]
    ELSE make_node_new(d, dirnode, filename, mode, alloc_inode(d))

\* dir is what get_inode_from_path(dirname) gave.
make_node_at(d, filename, mode, dir) ==
    IF dir.crashed THEN [d |-> Crash(d), ret |-> 0]
    ELSE IF dir.ret = -1 THEN [d |-> d, ret |-> -ENOENT]
    ELSE make_node_in(d, dir.ret, filename, mode,
                      get_file_in_inode(d, dir.ret, filename))

make_node(d, path, mode) ==
    make_node_at(d, FileName(path), mode, get_inode_from_path(d, DirName(path)))

\* delete_node(path): [d, ret].  d2 is the device after directory.erase.
delete_node_erased(filenode, d2) ==
    IF d2.crashed THEN [d |-> d2, ret |-> 0]
    ELSE [d |-> free_inode(d2, filenode), ret |-> 0]

\* d1 is the device after proxy.resize(0), f the item the loop stops at.
delete_node_erase(d1, dirnode, filenode, f) ==
    IF d1.crashed THEN [d |-> d1, ret |-> 0]
    ELSE IF f.crashed \/ f.index = -1 THEN [d |-> Crash(d1), ret |-> 0]
    ELSE delete_node_erased(filenode, DirectoryProxy_erase(d1, dirnode, f.index))

delete_node_resized(d1, dirnode, filename, filenode) ==
    delete_node_erase(d1, dirnode, filenode, FindItem(d1, dirnode, filename, 0))

\* file is what get_file_in_inode(dirnode, filename) gave.
delete_node_in(d, dirnode, filename, file) ==
    IF file.crashed THEN [d |-> Crash(d), ret |-> 0]
    ELSE IF file.ret = -1 THEN [d |-> d, ret |-> -ENOENT]
    ELSE delete_node_resized(resize(d, file.ret, 0).d, dirnode, filename, file.ret)

\* dir is what get_inode_from_path(dirname) gave.
delete_node_at(d, filename, dir) ==
    IF dir.crashed THEN [d |-> Crash(d), ret |-> 0]
    ELSE IF dir.ret = -1 THEN [d |-> d, ret |-> -ENOENT]
    ELSE delete_node_in(d, dir.ret, filename,
                        get_file_in_inode(d, dir.ret, filename))

delete_node(d, path) ==
    delete_node_at(d, FileName(path), get_inode_from_path(d, DirName(path)))

\* fs_truncate(path, size): [d, ret].
fs_truncate_resized(r) == [d |-> r.d, ret |-> -r.ret]

fs_truncate_inode(d, size, now_inode) ==
    IF now_inode.crashed THEN [d |-> Crash(d), ret |-> 0]
    ELSE IF now_inode.ret = -1 THEN [d |-> d, ret |-> -ENOENT]
    ELSE fs_truncate_resized(resize(d, now_inode.ret, size))

fs_truncate(d, path, size) ==
    fs_truncate_inode(d, size, get_inode_from_path(d, path))

\* fs_open(path) and then fs_write(fh, offset, size, buffer): [d, ret].
\* r is what the resize gave (or nothing to do).
fs_write_resized(file_inode, offset, size, buffer, ub, r) ==
    IF r.d.crashed THEN [d |-> r.d, ret |-> 0]
    ELSE IF r.ret # 0 THEN [d |-> r.d, ret |-> -r.ret]
    ELSE DataProxy_write(r.d, file_inode, offset, size, buffer, ub)

fs_write_inode(d, offset, size, buffer, ub, now_inode) ==
    IF now_inode.crashed THEN [d |-> Crash(d), ret |-> 0]
    ELSE IF now_inode.ret = -1 THEN [d |-> d, ret |-> -ENOENT]
    ELSE fs_write_resized(now_inode.ret, offset, size, buffer, ub,
             IF size + offset > d.inodes[now_inode.ret].filesize
             THEN resize(d, now_inode.ret, size + offset)
             ELSE [d |-> d, ret |-> 0])

fs_write(d, path, offset, size, buffer, ub) ==
    fs_write_inode(d, offset, size, buffer, ub, get_inode_from_path(d, path))

\* fs_open(path) and then fs_read(fh, offset, size): [data, crashed, ret].
fs_read_done(r) == [data |-> r.data, crashed |-> r.crashed, ret |-> Len(r.data)]

fs_read_inode(d, offset, size, junk, now_inode) ==
    IF now_inode.crashed THEN [data |-> <<>>, crashed |-> TRUE, ret |-> 0]
    ELSE IF now_inode.ret = -1 THEN [data |-> <<>>, crashed |-> FALSE, ret |-> -ENOENT]
    ELSE fs_read_done(DataProxy_read(d, now_inode.ret, offset, size, junk))

fs_read(d, path, offset, size, junk) ==
    fs_read_inode(d, offset, size, junk, get_inode_from_path(d, path))

\* fs_utime(path): [d, ret].  The inode is read and committed with new
\* times, which the model does not hold.
fs_utime_inode(d, inodenum) ==
    IF inodenum.crashed THEN [d |-> Crash(d), ret |-> 0]
    ELSE IF inodenum.ret = -1 THEN [d |-> d, ret |-> -ENOENT]
    ELSE [d |-> [d EXCEPT !.inodes[inodenum.ret] = d.inodes[inodenum.ret]], ret |-> 0]

fs_utime(d, path) == fs_utime_inode(d, get_inode_from_path(d, path))

\* fs_rename(oldpath, newname): [d, ret].  The item found, under its new name.
fs_rename_item(d, olddirnode, index, newfilename) ==
    [DirectoryProxy_get(d, olddirnode, index).item EXCEPT !.filename = newfilename]

\* The cross-directory rename erasing the old entry whatever push gave.
fs_rename_pushed_erasing(olddirnode, index, p) ==
    IF p.d.crashed THEN [d |-> p.d, ret |-> 0]
    ELSE [d |-> DirectoryProxy_erase(p.d, olddirnode, index), ret |-> -p.ret]

\* olddirname # newdirname: p is what new_.push gave; then old_.erase.
fs_rename_pushed(olddirnode, index, p) ==
    IF p.d.crashed THEN [d |-> p.d, ret |-> 0]
    ELSE IF p.ret # 0 THEN [d |-> p.d, ret |-> -p.ret]
    ELSE [d |-> DirectoryProxy_erase(p.d, olddirnode, index), ret |-> 0]

fs_rename_move(d, olddirnode, newdirnode, newfilename, f) ==
    IF f.crashed \/ f.index = -1 THEN [d |-> Crash(d), ret |-> 0]
    ELSE fs_rename_pushed(olddirnode, f.index,
             DirectoryProxy_push(d, newdirnode,
                 fs_rename_item(d, olddirnode, f.index, newfilename)))

\* olddirname == newdirname: the item is rewritten in place.
fs_rename_set(d, dirnode, newfilename, f) ==
    IF f.crashed \/ f.index = -1 THEN [d |-> Crash(d), ret |-> 0]
    ELSE [d |-> DirectoryProxy_set(d, dirnode, f.index,
                    fs_rename_item(d, dirnode, f.index, newfilename)),
          ret |-> 0]

fs_rename_dirs(d, oldpath, newpath, olddir, newdir) ==
    IF DirName(oldpath) = DirName(newpath)
    THEN IF olddir.crashed THEN [d |-> Crash(d), ret |-> 0]
         ELSE IF olddir.ret = -1 THEN [d |-> d, ret |-> -ENOENT]
         ELSE fs_rename_set(d, olddir.ret, FileName(newpath),
                            FindItem(d, olddir.ret, FileName(oldpath), 0))
    ELSE IF olddir.crashed \/ newdir.crashed THEN [d |-> Crash(d), ret |-> 0]
         ELSE IF olddir.ret = -1 \/ newdir.ret = -1 THEN [d |-> d, ret |-> -ENOENT]
         ELSE fs_rename_move(d, olddir.ret, newdir.ret, FileName(newpath),
                             FindItem(d, olddir.ret, FileName(oldpath), 0))

\* fs_rename without the test for an existing new path.
fs_rename_checked_over(d, oldpath, newpath, old, new) ==
    IF NameLength(FileName(newpath)) > MAX_NAME_LEN THEN [d |-> d, ret |-> -ENOSPC]
    ELSE IF old.crashed THEN [d |-> Crash(d), ret |-> 0]
    ELSE IF old.ret = -1 THEN [d |-> d, ret |-> -ENOENT]
    ELSE IF new.crashed THEN [d |-> Crash(d), ret |-> 0]
    ELSE fs_rename_dirs(d, oldpath, newpath,
                        get_inode_from_path(d, DirName(oldpath)),
                        get_inode_from_path(d, DirName(newpath)))

\* old and new are what get_inode_from_path gave for the two paths.
fs_rename_checked(d, oldpath, newpath, old, new) ==
    IF NameLength(FileName(newpath)) > MAX_NAME_LEN THEN [d |-> d, ret |-> -ENOSPC]
    ELSE IF old.crashed THEN [d |-> Crash(d), ret |-> 0]
    ELSE IF old.ret = -1 THEN [d |-> d, ret |-> -ENOENT]
    ELSE IF new.crashed THEN [d |-> Crash(d), ret |-> 0]
    ELSE IF new.ret # -1 THEN [d |-> d, ret |-> -EACCES]
    ELSE fs_rename_dirs(d, oldpath, newpath,
                        get_inode_from_path(d, DirName(oldpath)),
                        get_inode_from_path(d, DirName(newpath)))

fs_rename(d, oldpath, newpath) ==
    fs_rename_checked(d, oldpath, newpath,
                      get_inode_from_path(d, oldpath),
                      get_inode_from_path(d, newpath))

\* Disk::mkfs() on device d: the header is rebuilt and the bitmap blocks are
\* zeroed; the inode table, the data region and the two static hints are
\* left as they are.  Then the root inode is allocated and initialised.
mkfs_format(d, h) ==
    [d EXCEPT !.header = h,
              !.inode_bitmap = [b \in InodeBits(h) |-> FALSE],
              !.data_bitmap = [b \in DataBits(h) |-> FALSE]]

\* a is what alloc_inode gave for the root.
mkfs_root(a) ==
    IF a.d.crashed \/ a.ret = -1 THEN Crash(a.d)
    ELSE resize([a.d EXCEPT !.inodes[a.ret] = [ZeroINode EXCEPT !.type = DIRECTORY]],
                a.ret, 0).d

mkfs(d) == mkfs_root(alloc_inode(mkfs_format(d, HeaderBlock(d.block_num))))

\* A device of BLOCK_NUM blocks that was never written, in a process that
\* has not allocated yet.
BlankDisk(BLOCK_NUM) ==
    LET h == HeaderBlock(BLOCK_NUM)
    IN  [block_num |-> BLOCK_NUM,
         header |-> [h EXCEPT !.inode_num_free = 0, !.data_block_num_free = 0],
         inode_bitmap |-> [b \in InodeBits(h) |-> FALSE],
         data_bitmap |-> [b \in DataBits(h) |-> FALSE],
         inode_bitmap_min_pos |-> 0, data_bitmap_min_pos |-> 0,
         inodes |-> [n \in INodes(h) |-> ZeroINode],
         blocks |-> [b \in DataBlocks(h) |-> ZeroBlock],
         crashed |-> FALSE]

\* ---------------------------------------------------------------- actions
Install(d) ==
    /\ block_num' = d.block_num
    /\ header' = d.header
    /\ inode_bitmap' = d.inode_bitmap
    /\ data_bitmap' = d.data_bitmap
    /\ inode_bitmap_min_pos' = d.inode_bitmap_min_pos
    /\ data_bitmap_min_pos' = d.data_bitmap_min_pos
    /\ inodes' = d.inodes
    /\ blocks' = d.blocks
    /\ crashed' = d.crashed

\* The file names the paths are made of.
Names == 1 .. NumNames

\* What the last operation was: its name, the inode its path names (after a
\* create, before any other operation; -1: none), its return value, the size
\* it was given (truncate: the new size; write: the length) and base.
\* base holds the free counts from before a scenario began, for as long as
\* the scenario runs: set by a create that made a new file and by a truncate
\* that succeeded on a file without blocks, handed on by the writes to the
\* file that follow its create with nothing in between and by the unlink of
\* the file that follows those, NoBase otherwise.
NoBase == [inode |-> -1, data |-> -1]
Counters(d) == [inode |-> d.header.inode_num_free, data |-> d.header.data_block_num_free]
\* Of a write and of a read it also holds the offset (off); of a write,
\* whether it ended inside the file as it was (fit); of a read, the cells it
\* returned (data) and, when it follows a write of the same file that wrote
\* its whole buffer inside the file, that write's offset and length (woff,
\* wsize; -1 otherwise).  fresh: of a mknod, that it made a new file; of a
\* truncate, that it succeeded right after such a mknod of the same file; of
\* a read, that it follows such a truncate of the same file.  Of a rename:
\* the inodes its new path (now) and its old path (old) name afterwards.
\* Of a mknod, a mkdir and a rename: the path it was given (the old one);
\* of a rename also the new path (to).  Of a truncate that is followed
\* handle by handle and write by write: the block proxies it destroyed while open (unclosed) and its
\* bitmap and pointer writes in the order issued (writes), and the calls and
\* loop passes of its resize (trace).  Of a split_path:
\* the string it was given (str) and the components it returned (parts).
\* Of a read and of a write that returned a length: whether a pass of its
\* block loop copied past the end of the block buffer (over).
Last(op, ino, ret, size, base) ==
    [op |-> op, ino |-> ino, ret |-> ret, size |-> size, base |-> base,
     off |-> -1, fit |-> FALSE, data |-> <<>>, woff |-> -1, wsize |-> -1,
     fresh |-> FALSE, now |-> -1, old |-> -1, path |-> <<>>, to |-> <<>>,
     unclosed |-> 0, writes |-> <<>>, str |-> <<>>, parts |-> <<>>, over |-> FALSE,
     trace |-> <<>>]
Resolve(d, path) == get_inode_from_path(d, path).ret

\* The state main() leaves: mkfs() on the device.
StartFrom(d) ==
    /\ block_num = d.block_num
    /\ header = d.header
    /\ inode_bitmap = d.inode_bitmap
    /\ data_bitmap = d.data_bitmap
    /\ inode_bitmap_min_pos = d.inode_bitmap_min_pos
    /\ data_bitmap_min_pos = d.data_bitmap_min_pos
    /\ inodes = d.inodes
    /\ blocks = d.blocks
    /\ crashed = d.crashed

\* The devices: every size that has an inode block.
BlockNums == (INODE_IN_BLOCK + 1) .. MAX_BLOCK_NUM

\* main(): mkfs() on a device of bn blocks.
Boot(bn) ==
    /\ StartFrom(mkfs(BlankDisk(bn)))
    /\ last = Last("mkfs", -1, 0, 0, NoBase)
    /\ steps = 0

\* An operation's outcome r = [d, ret] becomes the next state; rec is what
\* last records of it.
Done(r, rec) == Install(r.d) /\ last' = rec

\* r is what make_node gave, before the inode path named before it.
MknodLast(path, r, before) ==
    [Last("mknod", IF r.d.crashed THEN -1 ELSE Resolve(r.d, path), r.ret, 0,
          IF r.ret = 0 /\ ~r.d.crashed /\ before = -1
          THEN Counters(Disk) ELSE NoBase)
     EXCEPT !.fresh = (r.ret = 0 /\ ~r.d.crashed /\ before = -1),
            !.path = path]

MknodDone(path, r) == Done(r, MknodLast(path, r, Resolve(Disk, path)))

Mknod(path) ==
    /\ ~crashed
    /\ MknodDone(path, make_node(Disk, path, FILE))

MkdirDone(path, r) ==
    Done(r, [Last("mkdir", IF r.d.crashed THEN -1 ELSE Resolve(r.d, path),
                  r.ret, 0, NoBase)
             EXCEPT !.path = path])

Mkdir(path) ==
    /\ ~crashed
    /\ MkdirDone(path, make_node(Disk, path, DIRECTORY))

\* fs_unlink and fs_rmdir: both are delete_node.
UnlinkDone(r, ino) ==
    Done(r, Last("unlink", ino, r.ret, 0,
                 IF last.op = "write" /\ last.base # NoBase /\ last.ino = ino
                 THEN last.base ELSE NoBase))

Unlink(path) ==
    /\ ~crashed
    /\ UnlinkDone(delete_node(Disk, path), Resolve(Disk, path))

RenameLast(oldpath, newpath, r) ==
    [Last("rename", Resolve(Disk, oldpath), r.ret, 0, NoBase)
     EXCEPT !.path = oldpath, !.to = newpath,
            !.now = IF r.d.crashed THEN -1 ELSE Resolve(r.d, newpath),
            !.old = IF r.d.crashed THEN -1 ELSE Resolve(r.d, oldpath)]

RenameDone(oldpath, newpath, r) == Done(r, RenameLast(oldpath, newpath, r))

Rename(oldpath, newpath) ==
    /\ ~crashed
    /\ RenameDone(oldpath, newpath, fs_rename(Disk, oldpath, newpath))

TruncateLast(size, r, ino) ==
    [Last("truncate", ino, r.ret, size,
          IF /\ ino # -1 /\ r.ret = 0 /\ ~r.d.crashed
             /\ get_block_size(Disk, ino) = 0
          THEN Counters(Disk) ELSE NoBase)
     EXCEPT !.fresh = (/\ last.op = "mknod" /\ last.fresh /\ last.ino = ino
                       /\ r.ret = 0 /\ ~r.d.crashed)]

TruncateDone(size, r, ino) == Done(r, TruncateLast(size, r, ino))

Truncate(path, size) ==
    /\ ~crashed
    /\ TruncateDone(size, fs_truncate(Disk, path, size), Resolve(Disk, path))

\* fs_truncate with its block proxies followed.
TruncateTracedDone(size, r, ino) ==
    Done(r, [TruncateLast(size, r, ino)
             EXCEPT !.unclosed = IF ino = -1 THEN 0 ELSE resize_unclosed(Disk, ino, size),
                    !.writes = IF ino = -1 THEN <<>> ELSE resize_writes(Disk, ino, size),
                    !.trace = IF ino = -1 THEN <<>>
                              ELSE resize_trace(Disk, ino, size, 0, <<>>)])

TruncateTraced(path, size) ==
    /\ ~crashed
    /\ TruncateTracedDone(size, fs_truncate(Disk, path, size), Resolve(Disk, path))

\* fs_open and fs_write of the buffer 1, 2, .., size at offset; ub is what the
\* build makes of a copy that leaves the block buffer.
Buffer(size) == [i \in 1 .. size |-> i]
WriteLast(offset, size, r, ino) ==
    [Last("write", ino, r.ret, size,
          IF /\ last.op \in {"mknod", "write"}
             /\ last.base # NoBase /\ last.ino = ino
             /\ r.ret >= 0 /\ ~r.d.crashed
          THEN last.base ELSE NoBase)
     EXCEPT !.off = offset,
            !.fit = (ino # -1 /\ offset + size <= inodes[ino].filesize),
            !.over = (ino # -1 /\ ~r.d.crashed /\ CopyOverruns(offset, r.ret))]

WriteDone(offset, size, r, ino) == Done(r, WriteLast(offset, size, r, ino))

Write(path, offset, size, ub) ==
    /\ ~crashed
    /\ WriteDone(offset, size, fs_write(Disk, path, offset, size, Buffer(size), ub),
                 Resolve(Disk, path))

\* fs_open and fs_read of size cells at offset; junk is what a copy that
\* leaves the block buffer finds behind it.
AfterWrite(ino) ==
    /\ last.op = "write" /\ last.ino = ino /\ ino # -1
    /\ last.ret = last.size /\ last.fit

ReadLast(offset, size, r, ino) ==
    [Last("read", ino, r.ret, size, NoBase)
     EXCEPT !.off = offset, !.data = r.data,
            !.woff = IF AfterWrite(ino) THEN last.off ELSE -1,
            !.wsize = IF AfterWrite(ino) THEN last.size ELSE -1,
            !.fresh = (last.op = "truncate" /\ last.fresh /\ last.ino = ino),
            !.over = (ino # -1 /\ ~r.crashed /\ CopyOverruns(offset, r.ret))]

ReadDone(offset, size, r, ino) ==
    /\ Install([Disk EXCEPT !.crashed = r.crashed])
    /\ last' = ReadLast(offset, size, r, ino)

Read(path, offset, size, junk) ==
    /\ ~crashed
    /\ ReadDone(offset, size, fs_read(Disk, path, offset, size, junk),
                Resolve(Disk, path))

\* Files and directories under the root names and one nested path, with
\* small sizes, on a small and a middle device, MaxSteps operations long.
Paths == {<<n>> : n \in Names} \cup {<<1, 1>>}
SmallSizes == {0, 1, BLOCK_SIZE + 1}
Outcomes == {"lost", "crash"}

Init == Boot(SMALL_BLOCK_NUM) \/ Boot(MID_BLOCK_NUM)

Next ==
    /\ steps < MaxSteps
    /\ steps' = steps + 1
    /\ \/ \E path \in Paths : Mknod(path)
       \/ \E path \in Paths : Mkdir(path)
       \/ \E path \in Paths : Unlink(path)
       \/ \E oldpath \in Paths, newpath \in Paths : Rename(oldpath, newpath)
       \/ \E path \in Paths, size \in SmallSizes : Truncate(path, size)
       \/ \E path \in Paths, ub \in Outcomes : Write(path, 1, BLOCK_SIZE, ub)

Spec == Init /\ [][Next]_vars

\* One file, every size, every device, any number of operations: the extent
\* engine.
TheFile == <<1>>
MaxBlocks == 1 + POINTER_PER_BLOCK + POINTER_PER_BLOCK * POINTER_PER_BLOCK
Sizes == 0 .. (MaxBlocks * BLOCK_SIZE)
\* Offsets to write at: the start, inside the first block, the last block a
\* filesize below 2^32 reaches, the first block past it.
Offsets == {0, 1, UINT32_RANGE - BLOCK_SIZE, UINT32_RANGE}

InitExtent == \E bn \in BlockNums : Boot(bn)

NextExtent ==
    /\ UNCHANGED steps
    /\ \/ Mknod(TheFile)
       \/ Unlink(TheFile)
       \/ \E size \in Sizes : Truncate(TheFile, size)
       \/ \E offset \in Offsets, size \in {1, BLOCK_SIZE}, ub \in Outcomes :
             Write(TheFile, offset, size, ub)

SpecExtent == InitExtent /\ [][NextExtent]_vars

\* One file resized to every size with its block proxies and its writes
\* followed, on every device.
InitHandles == \E bn \in BlockNums : Boot(bn)

NextHandles ==
    /\ UNCHANGED steps
    /\ \/ Mknod(TheFile)
       \/ Unlink(TheFile)
       \/ \E size \in Sizes : TruncateTraced(TheFile, size)

SpecHandles == InitHandles /\ [][NextHandles]_vars

\* split_path on every string of at most MaxStrLen characters over '/' and
\* two letters.
Chars == {Slash, 1, 2}
Strings == UNION {[1 .. n -> Chars] : n \in 0 .. MaxStrLen}

SplitPath(str) ==
    /\ UNCHANGED <<steps, block_num, header, inode_bitmap, data_bitmap,
                   inode_bitmap_min_pos, data_bitmap_min_pos, inodes, blocks, crashed>>
    /\ last' = [Last("split_path", -1, 0, 0, NoBase)
                EXCEPT !.str = str, !.parts = split_path(str)]

NextSplit == \E str \in Strings : SplitPath(str)

SpecSplit == Boot(SMALL_BLOCK_NUM) /\ [][NextSplit]_vars

\* fs_open and fs_write of the bytes of one directory entry at offset 0.
WriteItem(path, item) ==
    /\ ~crashed
    /\ WriteDone(0, ItemSize, fs_write(Disk, path, 0, ItemSize, <<ItemPack(item)>>, "lost"),
                 Resolve(Disk, path))

UtimeDone(r, ino) == Done(r, Last("utime", ino, r.ret, 0, NoBase))

Utime(path) ==
    /\ ~crashed
    /\ UtimeDone(fs_utime(Disk, path), Resolve(Disk, path))

\* Every operation of the namespace, over the root names and one nested
\* path, with files that hold bytes that read as a directory entry, on a
\* small and a middle device, MaxTreeSteps operations long.  TreePaths adds
\* a second nested path and a root name of more than MAX_NAME_LEN bytes.
Items == {[file_inode |-> n, filename |-> 1] : n \in {0, 2}}
TreePaths == Paths \cup {<<2, 1>>, <<LongName>>}

NextTree ==
    /\ steps < MaxTreeSteps
    /\ steps' = steps + 1
    /\ \/ \E path \in TreePaths : Mknod(path)
       \/ \E path \in TreePaths : Mkdir(path)
       \/ \E path \in TreePaths : Unlink(path)
       \/ \E oldpath \in TreePaths, newpath \in TreePaths : Rename(oldpath, newpath)
       \/ \E path \in TreePaths, size \in SmallSizes : Truncate(path, size)
       \/ \E path \in TreePaths, item \in Items : WriteItem(path, item)
       \/ \E path \in TreePaths : Read(path, 0, ItemSize, 0)
       \/ \E path \in TreePaths : Utime(path)

SpecTree == Init /\ [][NextTree]_vars

\* mkfs() called again in the process that has served creates and deletes,
\* on a small and a middle device, MaxSteps operations long.
Mkfs ==
    /\ ~crashed
    /\ Done([d |-> mkfs(Disk), ret |-> 0], Last("mkfs", -1, 0, 0, NoBase))

NextFormat ==
    /\ steps < MaxSteps
    /\ steps' = steps + 1
    /\ \/ \E path \in TreePaths : Mknod(path)
       \/ \E path \in TreePaths : Mkdir(path)
       \/ \E path \in TreePaths : Unlink(path)
       \/ Mkfs

SpecFormat == Init /\ [][NextFormat]_vars

\* One file written, read, resized, deleted and created again, on the
\* middle device and on the largest: byte I/O.
IOSizes == {0, BLOCK_SIZE + 1, 3 * BLOCK_SIZE}
IOOffsets == {0, 1, 2 * BLOCK_SIZE}
IOLengths == {1, BLOCK_SIZE}
Junk == {0, 1}

InitIO == Boot(MID_BLOCK_NUM) \/ Boot(MAX_BLOCK_NUM)

NextIO ==
    /\ UNCHANGED steps
    /\ \/ Mknod(TheFile)
       \/ Unlink(TheFile)
       \/ \E size \in IOSizes : Truncate(TheFile, size)
       \/ \E offset \in IOOffsets, size \in IOLengths, ub \in Outcomes :
             Write(TheFile, offset, size, ub)
       \/ \E offset \in IOOffsets, size \in IOLengths, junk \in Junk :
             Read(TheFile, offset, size, junk)

SpecIO == InitIO /\ [][NextIO]_vars

\* The allocator called directly, in any order, on the middle device.
AllocDone(op, r) == Done(r, Last(op, -1, r.ret, 0, NoBase))

AllocInode ==
    /\ ~crashed
    /\ AllocDone("alloc_inode", alloc_inode(Disk))

FreeInode(inodeno) ==
    /\ ~crashed
    /\ Install(free_inode(Disk, inodeno))
    /\ last' = Last("free_inode", inodeno, 0, 0, NoBase)

AllocData ==
    /\ ~crashed
    /\ AllocDone("alloc_data", alloc_data(Disk))

FreeData(datano) ==
    /\ ~crashed
    /\ Install(free_data(Disk, datano))
    /\ last' = Last("free_data", datano, 0, 0, NoBase)

\* The allocator called directly on a device that loses any of its writes.
AllocInodeLossy(bitmap_lost, header_lost) ==
    /\ ~crashed
    /\ AllocDone("alloc_inode",
                 [d |-> WritesLost(Disk, alloc_inode(Disk).d, bitmap_lost, header_lost),
                  ret |-> alloc_inode(Disk).ret])

FreeInodeLossy(inodeno, bitmap_lost, header_lost) ==
    /\ ~crashed
    /\ Install(WritesLost(Disk, free_inode(Disk, inodeno), bitmap_lost, header_lost))
    /\ last' = Last("free_inode", inodeno, 0, 0, NoBase)

AllocDataLossy(bitmap_lost, header_lost) ==
    /\ ~crashed
    /\ AllocDone("alloc_data",
                 [d |-> WritesLost(Disk, alloc_data(Disk).d, bitmap_lost, header_lost),
                  ret |-> alloc_data(Disk).ret])

FreeDataLossy(datano, bitmap_lost, header_lost) ==
    /\ ~crashed
    /\ Install(WritesLost(Disk, free_data(Disk, datano), bitmap_lost, header_lost))
    /\ last' = Last("free_data", datano, 0, 0, NoBase)

InitAlloc == Boot(MID_BLOCK_NUM)

NextAllocLossy ==
    /\ steps < MaxTreeSteps
    /\ steps' = steps + 1
    /\ \E bitmap_lost \in BOOLEAN, header_lost \in BOOLEAN :
          \/ AllocInodeLossy(bitmap_lost, header_lost)
          \/ \E inodeno \in INodes(header) :
                FreeInodeLossy(inodeno, bitmap_lost, header_lost)
          \/ AllocDataLossy(bitmap_lost, header_lost)
          \/ \E datano \in DataBlocks(header) :
                FreeDataLossy(datano, bitmap_lost, header_lost)

SpecAllocLossy == InitAlloc /\ [][NextAllocLossy]_vars

NextAlloc ==
    /\ UNCHANGED steps
    /\ \/ AllocInode
       \/ \E inodeno \in INodes(header) : FreeInode(inodeno)
       \/ AllocData
       \/ \E datano \in DataBlocks(header) : FreeData(datano)

SpecAlloc == InitAlloc /\ [][NextAlloc]_vars

\* ------------------------------------------------------------ vocabulary
\* The set bits of a bitmap.
PopCount(bm) == Cardinality({b \in DOMAIN bm : bm[b]})

\* The inodes the inode bitmap marks as in use.
Allocated == {n \in DOMAIN inodes : inode_bitmap[n]}

\* A block of the data region read as a pointer block (all zero elsewhere).
BlockAt(b) == IF b \in DOMAIN blocks THEN blocks[b] ELSE ZeroBlock
SlotIndex == 0 .. (POINTER_PER_BLOCK - 1)

\* The pointer blocks reachable from inode n: the indirect block, the outer
\* double-indirect block and the inner blocks it names.
OuterBlocks(n) == {inodes[n].iindirect_pointer} \ {0}
InnerBlocks(n) == {BlockAt(b)[i] : b \in OuterBlocks(n), i \in SlotIndex} \ {0}
PointerBlocks(n) == ({inodes[n].indirect_pointer} \ {0}) \cup OuterBlocks(n) \cup InnerBlocks(n)

\* The pointer slots of inode n's tree and the block number each one holds.
Slots(n) ==
    {<<"inode", n, f>> : f \in {"direct", "indirect", "iindirect"}}
        \cup {<<"block", b, i>> : b \in PointerBlocks(n), i \in SlotIndex}
SlotValue(s) ==
    IF s[1] = "block" THEN BlockAt(s[2])[s[3]]
    ELSE IF s[3] = "direct" THEN inodes[s[2]].direct_pointer
    ELSE IF s[3] = "indirect" THEN inodes[s[2]].indirect_pointer
    ELSE inodes[s[2]].iindirect_pointer
AllSlots == UNION {Slots(n) : n \in Allocated}

\* The blocks a slot of an allocated inode's tree points to.
Owned == {SlotValue(s) : s \in AllSlots} \ {0}

\* Whether the data bitmap marks block b of the data region as in use.
InUse(b) == b \in DOMAIN blocks /\ data_bitmap[b - header.data_block_offset]

\* The logical blocks of inode n, in order: the block number of each (0: absent).
Logical(n) ==
    LET ind == BlockAt(inodes[n].indirect_pointer)
        outer == BlockAt(inodes[n].iindirect_pointer)
    IN  <<inodes[n].direct_pointer>>
          \o [i \in 1 .. POINTER_PER_BLOCK |->
                IF inodes[n].indirect_pointer = 0 THEN 0 ELSE ind[i - 1]]
          \o [k \in 1 .. (POINTER_PER_BLOCK * POINTER_PER_BLOCK) |->
                IF inodes[n].iindirect_pointer = 0 THEN 0
                ELSE IF outer[(k - 1) \div POINTER_PER_BLOCK] = 0 THEN 0
                ELSE BlockAt(outer[(k - 1) \div POINTER_PER_BLOCK])[(k - 1) % POINTER_PER_BLOCK]]

\* The blocks of inode n's tree: its pointer blocks and its data blocks.
TreeBlocks(n) ==
    (PointerBlocks(n) \cup {Logical(n)[k] : k \in 1 .. Len(Logical(n))}) \cap DOMAIN blocks

\* The entries of inode n read as a directory, and the directories that the
\* root reaches through entries that name a directory.
EntryAt(n, i) == ItemUnpack(BlockAt(Logical(n)[(i \div BLOCK_SIZE) + 1])[i % BLOCK_SIZE])
EntriesOf(n) == {EntryAt(n, i) : i \in 0 .. ((inodes[n].filesize \div ItemSize) - 1)}
EntrySeq(n) == [i \in 0 .. ((inodes[n].filesize \div ItemSize) - 1) |-> EntryAt(n, i)]
SubDirs(S) ==
    {e.file_inode : e \in UNION {EntriesOf(n) : n \in S}}
        \cap {m \in DOMAIN inodes : inodes[m].type = DIRECTORY}
ReachableDirs == {0} \cup SubDirs({0}) \cup SubDirs(SubDirs({0})) \cup SubDirs(SubDirs(SubDirs({0})))

\* -------------------------------------------------------------------- C1
\* C1: after mkfs and after any sequence of operations each free count of
\* the superblock is the total minus the number of set bits of its bitmap.
AllocatorInverse ==
    /\ header.inode_num_free = header.inode_num_tot - PopCount(inode_bitmap)
    /\ header.data_block_num_free = header.data_block_num_tot - PopCount(data_bitmap)

\* An unlink released blocks and an inode while other blocks and inodes
\* stay allocated.
CountedAfterFree ==
    /\ ~crashed /\ last.op = "unlink" /\ last.ret = 0
    /\ PopCount(data_bitmap) > 1 /\ PopCount(inode_bitmap) > 1

\* -------------------------------------------------------------------- C2
\* C2: alloc_inode and alloc_data never return a number whose bitmap bit was
\* set when they were called.
NoDoubleAlloc ==
    [][/\ (last'.op = "alloc_inode" /\ last'.ret # -1) => ~inode_bitmap[last'.ret]
       /\ (last'.op = "alloc_data" /\ last'.ret # -1)
             => ~data_bitmap[last'.ret - header.data_block_offset]]_vars

\* An allocation filled a hole below a number that is still allocated.
ReusedAfterFree ==
    /\ ~crashed
    /\ \/ /\ last.op = "alloc_inode" /\ last.ret # -1
          /\ \E m \in DOMAIN inode_bitmap : m > last.ret /\ inode_bitmap[m]
       \/ /\ last.op = "alloc_data" /\ last.ret # -1
          /\ \E m \in DOMAIN data_bitmap :
                m > last.ret - header.data_block_offset /\ data_bitmap[m]

\* -------------------------------------------------------------------- C3
\* C3: unless an assert ended the process, every nonzero pointer of an
\* allocated inode's tree names a block of the data region whose bit is set.
PointersValid ==
    ~crashed => \A s \in AllSlots : SlotValue(s) # 0 => InUse(SlotValue(s))

\* A write or truncate succeeded on a file that uses all three tiers.
ThreeTiersInUse ==
    /\ ~crashed /\ last.op \in {"truncate", "write"} /\ last.ret >= 0
    /\ last.ino \in Allocated /\ InnerBlocks(last.ino) # {}
    /\ \A s \in Slots(last.ino) : s[1] = "inode" => SlotValue(s) # 0

\* -------------------------------------------------------------------- C4
\* C4: no block number is held by two pointer slots.
NoSharedBlock ==
    ~crashed => \A s \in AllSlots, t \in AllSlots :
                    (s # t /\ SlotValue(s) # 0) => SlotValue(s) # SlotValue(t)

\* Two regular files own blocks next to the root directory's.
TwoOwners ==
    /\ ~crashed
    /\ inodes[0].direct_pointer # 0
    /\ \E m \in Allocated, n \in Allocated :
          /\ m # n /\ inodes[m].type = FILE /\ inodes[n].type = FILE
          /\ inodes[m].direct_pointer # 0 /\ inodes[n].direct_pointer # 0

PrefixFilled(n) ==
    /\ \A k \in 1 .. Len(Logical(n)) :
          Logical(n)[k] # 0 => \A j \in 1 .. (k - 1) : Logical(n)[j] # 0
    /\ \A b \in PointerBlocks(n), i \in SlotIndex, j \in SlotIndex :
          (i < j /\ BlockAt(b)[i] = 0) => BlockAt(b)[j] = 0
FilledFromLowest ==
    (~crashed /\ last.op = "truncate" /\ last.ret = 0) => PrefixFilled(last.ino)

\* A truncate succeeded and left an inner block with its first slot in use
\* and its last slot free.
PartlyFilledInner ==
    /\ ~crashed /\ last.op = "truncate" /\ last.ret = 0 /\ last.ino # -1
    /\ \E b \in InnerBlocks(last.ino) :
          BlockAt(b)[0] # 0 /\ BlockAt(b)[POINTER_PER_BLOCK - 1] = 0

\* -------------------------------------------------------------------- C6
\* C6: after a truncate that succeeded the block count of the inode is the
\* size in blocks, rounded up, and its filesize is the size.
ResizeRoundTrip ==
    (~crashed /\ last.op = "truncate" /\ last.ret = 0 /\ last.ino # -1)
        => /\ get_block_size(Disk, last.ino) = DIVIDE_CEIL(last.size, BLOCK_SIZE)
           /\ inodes[last.ino].filesize = last.size

\* -------------------------------------------------------------------- C8
\* C8: a truncate that returns ENOSPC leaves the filesize and the block
\* count of the inode and data_block_num_free as they were.
RollbackRestores ==
    [][(last'.op = "truncate" /\ last'.ret = -ENOSPC /\ ~crashed')
          => /\ inodes'[last'.ino].filesize = inodes[last'.ino].filesize
             /\ get_block_size(Disk', last'.ino) = get_block_size(Disk, last'.ino)
             /\ header'.data_block_num_free = header.data_block_num_free]_vars

\* -------------------------------------------------------------------- C9
\* C9: truncate(0) right after a truncate(m) that succeeded on the same file,
\* empty before, returns and leaves data_block_num_free as it was before the
\* truncate(m).
ShrinkFreesAll ==
    [][(/\ last.op = "truncate" /\ last.base # NoBase
        /\ last'.op = "truncate" /\ last'.size = 0 /\ last'.ino = last.ino)
          => /\ ~crashed'
             /\ last'.ret = 0
             /\ header'.data_block_num_free = last.base.data]_vars

\* ------------------------------------------------------------------- C10
\* C10: an unlink right after the writes that came right after the create
\* of the same file returns 0 and leaves both free counts as they were
\* before the create.
DeleteReleases ==
    (last.op = "unlink" /\ last.base # NoBase)
        => /\ ~crashed
           /\ last.ret = 0
           /\ Counters(Disk) = last.base

\* Such an unlink returned, and a block that holds written data is free.
DeletedAfterWrite ==
    /\ ~crashed /\ last.op = "unlink" /\ last.base # NoBase /\ last.ret = 0
    /\ \E b \in DOMAIN blocks : ~InUse(b) /\ blocks[b][0] = Buffer(1)[1]

\* ------------------------------------------------------------------- C11
\* C11: a read right after a write that wrote its whole buffer inside the
\* file, at the write's offset and of at most the write's length, returns
\* that many cells and they are the first cells of the buffer written.
WriteReadRoundTrip ==
    (last.op = "read" /\ last.woff # -1 /\ last.off = last.woff /\ last.size <= last.wsize)
        => /\ ~crashed
           /\ last.ret = last.size
           /\ last.data = SubSeq(Buffer(last.wsize), 1, last.size)

\* ------------------------------------------------------------------- C12
\* C12: a truncate to at least len(A) that succeeds right after a write of A
\* at offset 0 that made A the whole file (A's blocks and no more) leaves
\* read(0, len(A)) equal to A and every logical block the file had on the
\* physical block it was on.
GrowKeepsPrefix ==
    [][(/\ last.op = "write" /\ last.off = 0 /\ last.ret = last.size /\ last.ino # -1
        /\ ~crashed /\ inodes[last.ino].filesize = last.size
        /\ get_block_size(Disk, last.ino) = DIVIDE_CEIL(last.size, BLOCK_SIZE)
        /\ last'.op = "truncate" /\ last'.ino = last.ino /\ last'.ret = 0
        /\ last'.size >= last.size /\ ~crashed')
          => /\ DataProxy_read(Disk', last.ino, 0, last.size, 0)
                   = [data |-> Buffer(last.size), crashed |-> FALSE]
             /\ \A i \in 0 .. (get_block_size(Disk, last.ino) - 1) :
                   get_data_block(Disk', last.ino, i) = get_data_block(Disk, last.ino, i)]_vars

\* ------------------------------------------------------------------- C13
\* C13: a read that ends in the block it starts in, right after the truncate
\* that grew a file right after the mknod that made it, returns NUL cells
\* only.
NeverWrittenReadsNul ==
    (/\ last.op = "read" /\ last.fresh /\ ~crashed
     /\ (last.off % BLOCK_SIZE) + last.size <= BLOCK_SIZE)
        => \A i \in 1 .. Len(last.data) : last.data[i] = 0

\* ------------------------------------------------------------------- C14
\* C14: after a rename that returned 0 the new path names the inode the old
\* path named before, the old path names nothing, and the inode and every
\* block of its tree are as they were.
RenamePreserves ==
    [][(last'.op = "rename" /\ last'.ret = 0 /\ ~crashed')
          => /\ last'.now = last'.ino
             /\ last'.old = -1
             /\ inodes'[last'.ino] = inodes[last'.ino]
             /\ \A b \in TreeBlocks(last'.ino) : blocks'[b] = blocks[b]]_vars

\* ------------------------------------------------------------------- C15
\* C15: a write to an existing file that returns an error returns -ENOSPC
\* and leaves every block in use, the filesize and the block count of the
\* file and data_block_num_free as they were.
FailedWriteKeeps ==
    [][(last'.op = "write" /\ last'.ino # -1 /\ last'.ret < 0 /\ ~crashed')
          => /\ last'.ret = -ENOSPC
             /\ \A b \in DOMAIN blocks : InUse(b) => blocks'[b] = blocks[b]
             /\ inodes'[last'.ino].filesize = inodes[last'.ino].filesize
             /\ get_block_size(Disk', last'.ino) = get_block_size(Disk, last'.ino)
             /\ header'.data_block_num_free = header.data_block_num_free]_vars

\* ------------------------------------------------------------------- C16
\* C16: in every state inode 0 has its bitmap bit set and is a directory,
\* and the empty path resolves to it.
RootStays ==
    /\ inode_bitmap[0]
    /\ inodes[0].type = DIRECTORY
    /\ Resolve(Disk, <<>>) = 0

\* ------------------------------------------------------------------- C17
\* C17: after every operation that returned, every entry of every directory
\* the root reaches names an inode whose inode-bitmap bit is set.
EntriesAllocated ==
    ~crashed => \A n \in ReachableDirs : \A e \in EntriesOf(n) :
                    e.file_inode \in DOMAIN inode_bitmap /\ inode_bitmap[e.file_inode]

\* ------------------------------------------------------------------- C18
\* C18: a mknod or mkdir of a path that resolves returns 0 and leaves the
\* superblock, both bitmaps, every inode and every block as they were
\* (timestamps are not part of the state).
CreateExistingNoOp ==
    [][(last'.op \in {"mknod", "mkdir"} /\ Resolve(Disk, last'.path) # -1)
          => /\ ~crashed' /\ last'.ret = 0
             /\ header' = header
             /\ inode_bitmap' = inode_bitmap /\ data_bitmap' = data_bitmap
             /\ inodes' = inodes /\ blocks' = blocks]_vars

\* A mkdir of a path that names a regular file with data returned 0.
MkdirOnFile ==
    /\ ~crashed /\ last.op = "mkdir" /\ last.ret = 0 /\ last.ino # -1
    /\ inodes[last.ino].type = FILE /\ inodes[last.ino].filesize > 0

\* ------------------------------------------------------------------- C19
\* C19: a mknod or mkdir that returns an error leaves both free counts, the
\* inode bitmap and the entries of the parent directory as they were.
FailedCreateKeeps ==
    [][(last'.op \in {"mknod", "mkdir"} /\ last'.ret < 0 /\ ~crashed')
          => /\ last'.ret \in {-ENOENT, -ENOSPC}
             /\ Counters(Disk') = Counters(Disk)
             /\ inode_bitmap' = inode_bitmap
             /\ \A dir \in DOMAIN inodes :
                   dir = Resolve(Disk, DirName(last'.path)) => EntrySeq(dir)' = EntrySeq(dir)]_vars

\* A create of a short name failed with ENOSPC while inodes were free: the
\* push failed and the inode taken for the leaf is free again.
FailedPushUndone ==
    /\ ~crashed /\ last.op \in {"mknod", "mkdir"} /\ last.ret = -ENOSPC
    /\ NameLength(FileName(last.path)) <= MAX_NAME_LEN
    /\ header.inode_num_free > 0

\* ------------------------------------------------------------------- C20
\* C20: a rename whose new leaf name is too long returns -ENOSPC; otherwise
\* one whose old path does not resolve returns -ENOENT; otherwise one whose
\* new path resolves returns -EACCES.  In each case nothing on the device
\* changes, so both entries and the inodes they name stay as they were.
RenameCheckResult(oldino, newino, newname) ==
    IF NameLength(newname) > MAX_NAME_LEN THEN -ENOSPC
    ELSE IF oldino = -1 THEN -ENOENT
    ELSE IF newino # -1 THEN -EACCES
    ELSE 0

RenameNeverOverwrites ==
    [][(/\ last'.op = "rename"
        /\ RenameCheckResult(Resolve(Disk, last'.path), Resolve(Disk, last'.to),
                             FileName(last'.to)) # 0)
          => /\ ~crashed'
             /\ last'.ret = RenameCheckResult(Resolve(Disk, last'.path),
                                              Resolve(Disk, last'.to), FileName(last'.to))
             /\ header' = header
             /\ inode_bitmap' = inode_bitmap /\ data_bitmap' = data_bitmap
             /\ inodes' = inodes /\ blocks' = blocks]_vars

\* A rename onto the path of another existing node was refused.
RenameOntoExisting ==
    /\ ~crashed /\ last.op = "rename" /\ last.ret = -EACCES
    /\ Resolve(Disk, last.path) # -1 /\ Resolve(Disk, last.to) # -1
    /\ Resolve(Disk, last.path) # Resolve(Disk, last.to)

\* ------------------------------------------------------------------- C21
\* C21: a rename between two directories whose push into the new parent
\* fails returns -ENOSPC; the old path still names the node, the entries and
\* the filesize of both parents are as before, and so are the free counts
\* and the data bitmap.
FailedMoveKeeps ==
    [][(/\ last'.op = "rename" /\ last'.ret < 0 /\ ~crashed'
        /\ RenameCheckResult(Resolve(Disk, last'.path), Resolve(Disk, last'.to),
                             FileName(last'.to)) = 0
        /\ Resolve(Disk, DirName(last'.to)) # -1)
          => /\ last'.ret = -ENOSPC
             /\ DirName(last'.path) # DirName(last'.to)
             /\ last'.old = last'.ino
             /\ Counters(Disk') = Counters(Disk)
             /\ data_bitmap' = data_bitmap
             /\ \A dir \in DOMAIN inodes :
                   (\/ dir = Resolve(Disk, DirName(last'.path))
                    \/ dir = Resolve(Disk, DirName(last'.to)))
                   => /\ EntrySeq(dir)' = EntrySeq(dir)
                      /\ inodes'[dir].filesize = inodes[dir].filesize]_vars

\* A rename into another directory was refused for want of a data block.
MoveRefused ==
    /\ ~crashed /\ last.op = "rename" /\ last.ret = -ENOSPC
    /\ NameLength(FileName(last.to)) <= MAX_NAME_LEN
    /\ DirName(last.path) # DirName(last.to)
    /\ last.ino # -1 /\ last.old = last.ino
    /\ header.data_block_num_free = 0

\* ------------------------------------------------------------------- C22
\* C22: a read of an existing file returns exactly
\* max(0, min(filesize, offset + len) - offset) cells, without failing,
\* whatever the offset and the length.
ReadLengthClamped ==
    (last.op = "read" /\ last.ino # -1)
        => /\ ~crashed
           /\ last.ret = Max(0, Min(inodes[last.ino].filesize, last.off + last.size) - last.off)

\* ------------------------------------------------------------------- C23
\* C23: a mknod, mkdir or rename of a path one of whose components before
\* the last names a regular file returns -ENOENT and changes nothing.
IsFileAt(ino) == IF ino = -1 THEN FALSE ELSE inodes[ino].type = FILE
ThroughFile(path) ==
    \E k \in 1 .. (Len(path) - 1) : IsFileAt(Resolve(Disk, SubSeq(path, 1, k)))

NoDescentThroughFile ==
    [][(last'.op \in {"mknod", "mkdir", "rename"} /\ ThroughFile(last'.path))
          => /\ ~crashed' /\ last'.ret = -ENOENT
             /\ header' = header
             /\ inode_bitmap' = inode_bitmap /\ data_bitmap' = data_bitmap
             /\ inodes' = inodes /\ blocks' = blocks]_vars

\* ------------------------------------------------------------------- C24
\* C24: after every mkfs, the first and any later one, both bitmaps are clear
\* except inode bit 0, inode 0 is an empty directory without blocks, and the
\* free counts are inode_num_tot - 1 and data_block_num_tot.
Formatted ==
    /\ ~crashed
    /\ \A b \in DOMAIN inode_bitmap : inode_bitmap[b] = (b = 0)
    /\ \A b \in DOMAIN data_bitmap : ~data_bitmap[b]
    /\ inodes[0] = [ZeroINode EXCEPT !.type = DIRECTORY]
    /\ header.inode_num_free = header.inode_num_tot - 1
    /\ header.data_block_num_free = header.data_block_num_tot

MkfsFormats == (last.op = "mkfs") => Formatted

\* ------------------------------------------------------------------- C25
\* C25: no operation lets a block proxy go out of scope while it is open:
\* every truncate, the failing ones included, destroys none unclosed.
HandlesClosed == (last.op = "truncate" /\ ~crashed) => last.unclosed = 0

\* ------------------------------------------------------------------- C26
\* C26: among the writes of one truncate, the write that sets the bitmap bit
\* of a block comes before the write that stores a pointer to it, and the
\* write that takes the pointer to a block off the device comes before the
\* write that clears its bitmap bit.
Before(log, w1, w2) ==
    \A i \in 1 .. Len(log), j \in 1 .. Len(log) :
        (log[i].w = w1 /\ log[j].w = w2 /\ log[i].b = log[j].b) => i < j

WritesOrdered ==
    (last.op = "truncate" /\ ~crashed)
        => /\ Before(last.writes, "set", "store")
           /\ Before(last.writes, "erase", "clear")

\* ------------------------------------------------------------------- C27
\* Scenario S3 at the model's scale: a new file truncated to one direct
\* block, a full indirect block and one more data block, which lies in the
\* double-indirect tier (P = POINTER_PER_BLOCK; the scenario's 5 is 1 here).
S3Size == BLOCK_SIZE * (1 + POINTER_PER_BLOCK + 1)
S3Done ==
    /\ last.op = "truncate" /\ last.fresh /\ last.size = S3Size
    /\ last.ret = 0 /\ ~crashed /\ last.ino # -1

\* C27 (amended): after S3 the block count of the file is 1 + P + 1, the
\* number of its data blocks; the device has given 1 + 1 + P + 1 + 1 + 1
\* blocks to it, the indirect, the outer and the one inner block included.
S3BlockCount ==
    S3Done => /\ get_block_size(Disk, last.ino) = 1 + POINTER_PER_BLOCK + 1
              /\ last.base.data - header.data_block_num_free
                   = 1 + 1 + POINTER_PER_BLOCK + 1 + 1 + 1

\* C27 as stated: the block count after S3 is 1 + 1 + P + 1 + 1.
S3BlockCountStated ==
    S3Done => get_block_size(Disk, last.ino) = 1 + 1 + POINTER_PER_BLOCK + 1 + 1

\* S3 has run: the file reaches into the double-indirect tier.
S3Reached == S3Done /\ inodes[last.ino].iindirect_pointer # 0

\* ------------------------------------------------------------------- C28
\* The maximal non-empty runs of characters other than '/' of a string, in
\* order.
RunLength(s) ==
    IF \A i \in 1 .. Len(s) : s[i] # Slash THEN Len(s)
    ELSE (CHOOSE i \in 1 .. Len(s) : s[i] = Slash /\ \A j \in 1 .. (i - 1) : s[j] # Slash) - 1

RECURSIVE Runs(_)
Runs(s) ==
    IF s = <<>> THEN <<>>
    ELSE IF Head(s) = Slash THEN Runs(Tail(s))
    ELSE <<SubSeq(s, 1, RunLength(s))>> \o Runs(SubSeq(s, RunLength(s) + 1, Len(s)))

\* C28: split_path returns the maximal non-empty runs of non-'/' characters
\* of its argument, in order, and so never an empty component.
SplitGivesRuns == (last.op = "split_path") => last.parts = Runs(last.str)

\* ------------------------------------------------------------------- C29
\* C29: a call of alloc_inode, free_inode, alloc_data or free_data that does
\* not report an error (alloc: a return value other than -1; free returns
\* nothing) has updated both the bitmap and the free count of the header,
\* whichever of its writes the device lost.
AllocatorAtomic ==
    [][(/\ last'.op \in {"alloc_inode", "free_inode", "alloc_data", "free_data"}
        /\ ~crashed' /\ last'.ret # -1)
          => IF last'.op \in {"alloc_inode", "free_inode"}
             THEN /\ inode_bitmap' # inode_bitmap
                  /\ header'.inode_num_free # header.inode_num_free
             ELSE /\ data_bitmap' # data_bitmap
                  /\ header'.data_block_num_free # header.data_block_num_free]_vars

\* ------------------------------------------------------------------- C30
\* C30: no pass of the block loop of a read or of a write copies more than
\* BLOCK_SIZE minus the in-block offset.
CopyStaysInBlock == (last.op \in {"read", "write"} /\ last.ino # -1) => ~last.over


\* C31: in every state the allocator reaches from mkfs by allocs and frees,
\* a nonzero inode_num_free (data_block_num_free) means that the search
\* BitMap::get_first_zero makes from the hint returns a clear bit that is an
\* inode number (a block of the data region), and no alloc_inode or
\* alloc_data has ended in its assertion ret != -1.
HintedInode ==
    BitMap_get_first_zero(inode_bitmap,
        header.data_block_bitmap_offset - header.inode_bitmap_offset,
        inode_bitmap_min_pos)
HintedData ==
    BitMap_get_first_zero(data_bitmap,
        header.inode_block_offset - header.data_block_bitmap_offset,
        data_bitmap_min_pos)

HintNeverHides ==
    /\ last.op \in {"alloc_inode", "alloc_data"} => ~crashed
    /\ (~crashed /\ header.inode_num_free # 0) =>
          /\ HintedInode \in INodes(header)
          /\ ~inode_bitmap[HintedInode]
    /\ (~crashed /\ header.data_block_num_free # 0) =>
          /\ HintedData + header.data_block_offset \in DataBlocks(header)
          /\ ~data_bitmap[HintedData]

\* An alloc_inode that returned an inode below one still in use, in a later
\* bitmap word: the hint had been raised past it and a free lowered it.
AllocBelowHintedWord ==
    /\ ~crashed
    /\ last.op = "alloc_inode"
    /\ last.ret # -1
    /\ last.ret < WORD_BITS
    /\ \A b \in INodes(header) : b >= WORD_BITS => inode_bitmap[b]
    /\ header.inode_num_free # 0

\* C32: in every state that is not crashed, whatever resizes the file went
\* through, get_data_block maps every logical index k below
\* ceil(filesize / BLOCK_SIZE) of an allocated inode to a nonzero block
\* without meeting a zero slot, and maps distinct indices to distinct blocks.
SizeInBlocks(n) == DIVIDE_CEIL(inodes[n].filesize, BLOCK_SIZE)

MappedBelowSize ==
    ~crashed =>
      \A n \in INodes(header) : inode_bitmap[n] =>
        \A k \in 0 .. (SizeInBlocks(n) - 1) :
          /\ get_data_block(Disk, n, k) > 0
          /\ \A j \in 0 .. (k - 1) :
                get_data_block(Disk, n, j) # get_data_block(Disk, n, k)

\* A truncate that succeeded and left a filesize whose last block is mapped
\* through the double-indirect block.
MappedThroughOuter ==
    /\ ~crashed
    /\ last.op = "truncate"
    /\ last.ret = 0
    /\ last.ino # -1
    /\ SizeInBlocks(last.ino) > 1 + POINTER_PER_BLOCK

\* C33: of every resize a truncate makes: each loop pass follows the call
\* or the pass before it of the same call with block_now one step closer to
\* block_need, so a call makes at most |block_need - block_now| passes; a
\* jump to ROLLBACK comes from a grow pass and ends the passes of its call; no
\* call is made deeper than the one at ROLLBACK; and that call starts with
\* block_now >= block_need, so that each of its passes is a shrink, none
\* allocates and it does not reach ROLLBACK.
Toward(now, next, need) ==
    IF now < need THEN next = now + 1 ELSE now > need /\ next = now - 1

ResizeProgresses ==
    \A i \in 1 .. Len(last.trace) :
        /\ last.trace[i].depth <= 1
        /\ last.trace[i].depth = 1 =>
              /\ last.trace[i].kind # "rollback"
              /\ last.trace[i].now >= last.trace[i].need
        /\ last.trace[i].kind = "call" =>
              /\ i = 1 \/ last.trace[i - 1].kind = "rollback"
              /\ last.trace[i].depth = IF i = 1 THEN 0 ELSE last.trace[i - 1].depth + 1
        /\ last.trace[i].kind # "call" =>
              /\ last.trace[i - 1].kind # "rollback"
              /\ last.trace[i].depth = last.trace[i - 1].depth
              /\ last.trace[i].need = last.trace[i - 1].need
              /\ last.trace[i].now # last.trace[i].need
              /\ IF last.trace[i].kind = "rollback"
                 THEN /\ last.trace[i - 1].kind = "pass"
                      /\ last.trace[i].now = last.trace[i - 1].now
                      /\ last.trace[i].now < last.trace[i].need
                 ELSE IF last.trace[i - 1].kind = "call"
                 THEN last.trace[i].now = last.trace[i - 1].now
                 ELSE Toward(last.trace[i - 1].now, last.trace[i].now, last.trace[i].need)

\* A truncate whose grow went to ROLLBACK after a pass that had added a
\* block, and whose resize(size_orig) made a pass.
RolledBackByShrink ==
    /\ ~crashed
    /\ last.op = "truncate"
    /\ last.ret = -ENOSPC
    /\ \E i \in 1 .. Len(last.trace) :
          last.trace[i].kind = "pass" /\ last.trace[i].depth = 1
====
